---- MODULE Spec2Model ----
(***************************************************************************)
(* Model of the snapshot computation engine of hub.stx.pub:                *)
(*   - the snapshot scheduler and the Cache Store (snapshot-job.ts,        *)
(*     snapshot-store.ts)                                   -> Spec        *)
(*   - the commit graph builder and the canonical trace (miner-viz.ts)     *)
(*                                                          -> SpecGraph   *)
(*   - the power aggregator (miner-power-service.ts)        -> SpecPower   *)
(***************************************************************************)
EXTENDS Integers, Sequences, FiniteSets, TLC

(***************************************************************************)
(* Bounds of the model.                                                    *)
(***************************************************************************)
\* highest commitment height the sortition store reaches
MaxHeight == 2
\* last instant of the wall clock (one unit = 24 hours)
MaxTime == 2

(***************************************************************************)
(* Program constants.                                                      *)
(***************************************************************************)
\* const maxRetries = 3
maxRetries == 3
\* const delay = 2000 * attempt
RetryDelayMs == 2000
\* maxAgeMs = 1000 * 60 * 60 * 24, in clock units of 24 hours
maxAgeUnits == 1
MINER_VIZ_WINDOW == 20
MINER_POWER_WINDOW == 144

\* SQL NULL / JS null
Null == -1

VARIABLES
  storesRaise,   \* the stores may raise errors in a statement of an attempt
  dataDir,       \* getStacksDataDir() returns a directory (TRUE) or null (FALSE)
  snapshotCron,  \* module variable snapshotCron: the Cron timer exists
  isRunning,     \* module variable isRunning
  runs,          \* invocations of runSnapshotGeneration suspended in Bun.sleep
  hub,           \* the Cache Store file hub.sqlite
  hubMid,        \* the Cache Store as it was between the insert and the prune of the latest attempt
  sortMax,       \* SELECT MAX(block_height) FROM block_commits (0: no commitments)
  now,           \* wall clock
  appended,      \* rows ever appended to miner_snapshots
  loaded,        \* the reader call of loadLatestSnapshot made in the step just taken
  started,       \* the step just taken began a run (passed the guard of runSnapshotGeneration)
  fin,           \* summary of the tick that ended in the step just taken
  ticks          \* the two ticks that arrived last, in arrival order: ended or not,
                 \* skipped or not, rows appended, upstream height changed since the
                 \* tick arrived, upstream height cached when it arrived

svars == <<storesRaise, dataDir, snapshotCron, isRunning, runs, hub, hubMid, sortMax, now,
           appended, loaded, started, fin, ticks>>

\* One call of computeMinerVizSnapshot (miner-viz.ts)
VARIABLES
  gPc,           \* position: "off", "fetch", "tip", "walk", "done"
  blockCommitsTable, \* the rows of block_commits in the sortition store
  lowerBound,    \* the window, as generateSnapshot passes it
  startBlock,
  allCommits,    \* blockCommits.allCommits: txid -> BlockCommit
  winningBlockTxid, \* processCanonicalTip: row.winning_block_txid, empty without a row
  tipTxid,       \* processCanonicalTip: let tipTxid
  isHead,        \* processCanonicalTip: let isHead
  visited        \* the commitments the canonical trace has marked, in order

gvars == <<gPc, blockCommitsTable, lowerBound, startBlock, allCommits,
           winningBlockTxid, tipTxid, isHead, visited>>

\* One call of computeMinerPowerSnapshot (miner-power-service.ts)
VARIABLES
  pPc,           \* position: "off", "compute", "done"
  headers,       \* nakamoto_block_headers: the burn heights that have a tenure-change header
  payments,      \* the rows of payments, in storage order
  burnFees,      \* block_commits: burn_fee summed per sender above the lower bound
  powerLowerBound, \* params.lowerBound
  windowSize,    \* params.windowSize
  countedRows,   \* let countedRows
  items          \* the items of the MinerPowerSnapshot returned

pvars == <<pPc, headers, payments, burnFees, powerLowerBound, windowSize,
           countedRows, items>>

\* One call of buildMinerAddressMaps (miner-power-service.ts)
VARIABLES
  mPc,           \* position: "off", "query", "loop", "done"
  mapPayments,   \* payments rows with a recipient, most recent stacks block first
  chain,         \* per index_block_hash: the header, production round and commitment joined to it
  mapLimit,      \* parameter limit
  mapRows,       \* rows of the query not yet seen by the loop
  stacksToBtc,   \* const stacksToBtc
  btcToStacks    \* const btcToStacks

mvars == <<mPc, mapPayments, chain, mapLimit, mapRows, stacksToBtc, btcToStacks>>

\* The Cache Store under direct calls of insertSnapshot and pruneSnapshots and
\* under read requests (snapshot-store.ts, api-utils.ts)
VARIABLES
  cache,         \* hub.sqlite
  clock,         \* Date.now(), one unit = 24 hours
  op             \* the call made in the step just taken, with its result

rvars == <<cache, clock, op>>

\* Process startup: the worker manager, the worker script and the scheduler
\* it initializes (worker-manager.ts, snapshot-worker.ts, snapshot-job.ts)
VARIABLES
  processEnv,    \* process.env.STACKS_DATA_DIR: unset, or a text
  snapshotWorker,\* module variable snapshotWorker of worker-manager.ts: a Worker exists
  workerBooted,  \* the worker has run its script
  workerCron,    \* module variable snapshotCron inside the worker
  startupRuns,   \* runs started by initializeSnapshotScheduler
  storesOpened,  \* times a run opened the sortition store
  workersCreated, \* times new Worker(...) returned a worker
  timersCreated, \* times new Cron(...) was executed
  consoleLog     \* the console lines written, oldest first

wvars == <<processEnv, snapshotWorker, workerBooted, workerCron, startupRuns,
           storesOpened, workersCreated, timersCreated, consoleLog>>

\* One call of a text helper (escapeSqliteString, parseCostVector,
\* applyD2ClassDefinitions)
VARIABLES
  fnCall         \* the call made: function, input, result

fvars == <<fnCall>>

\* One call of processWinningBlocks (miner-viz.ts) on the graph of
\* fetchCommitData
VARIABLES
  winPc,          \* position: "off", "wait", "done"
  snapshotsTable, \* snapshots of the sortition store, per block_height, as far as the loop reads it
  paymentsTable,  \* payments of the chain-state store, per consensus_hash
  feesTable       \* nakamoto_block_headers: the last header's tenure_tx_fees, per burn_header_height

nvars == <<winPc, snapshotsTable, paymentsTable, feesTable>>

\* The spend query of computeMinerPowerSnapshot inside one run of
\* generateSnapshot, while the stacks node appends to the sortition store
VARIABLES
  spendPc,        \* position: "off", "range", "spend", "done"
  commitRows,     \* block_commits of the sortition store, in insertion order
  spendStart,     \* const { start } = getBlockRange(...)
  burnFeeRows     \* burnFeeStmt.all(lowerBound): total_burn_fee per sender

qvars == <<spendPc, commitRows, spendStart, burnFeeRows>>

\* The connections one run of runSnapshotGeneration holds to the source stores
VARIABLES
  attemptNo,      \* the attempt of the for loop that ran last (0: no run yet)
  sleeping,       \* the run is suspended in Bun.sleep before its next attempt
  handles,        \* the open Database objects: "sortition", "chainstate"
  attachedDb,     \* the chain-state connection has the sortition store attached
  attemptEnds     \* how the attempts of the run ended, oldest first

cvars == <<attemptNo, sleeping, handles, attachedDb, attemptEnds>>

\* the parts added to the scheduler, graph and power parts
xvars == <<mvars, rvars, wvars, fvars, nvars, qvars, cvars>>
mapsRest == <<rvars, wvars, fvars, nvars, qvars, cvars>>
storeRest == <<mvars, wvars, fvars, nvars, qvars, cvars>>
workerRest == <<mvars, rvars, fvars, nvars, qvars, cvars>>
textRest == <<mvars, rvars, wvars, nvars, qvars, cvars>>
winnersRest == <<mvars, rvars, wvars, fvars, qvars, cvars>>
spendRest == <<mvars, rvars, wvars, fvars, nvars, cvars>>
connRest == <<mvars, rvars, wvars, fvars, nvars, qvars>>

vars == <<svars, gvars, pvars, xvars>>

Max(a, b) == IF a >= b THEN a ELSE b

(***************************************************************************)
(* Cache Store (snapshot-store.ts).                                        *)
(***************************************************************************)
\* openHubDatabase(dataDir, "write"): create: true, then CREATE TABLE IF NOT EXISTS
OpenHubWrite(h) == [h EXCEPT !.file = TRUE, !.table = TRUE]

\* JSON.stringify(record.minerPower) / JSON.parse(row.miner_power_json)
JsonStringify(v) == [json |-> v]
JsonParse(s) == s.json

\* insertSnapshot: one INSERT of the five columns
InsertSnapshot(h, rec) ==
  LET w == OpenHubWrite(h) IN
  [w EXCEPT !.rows = Append(w.rows,
      [generated_at |-> rec.generatedAt,
       bitcoin_block_height |-> rec.bitcoinBlockHeight,
       sortition_id |-> rec.sortitionId,
       miner_power_json |-> JsonStringify(rec.minerPower),
       d2_source |-> rec.minerViz.d2Source])]

\* Date.prototype.toISOString for the instant t (in units of 24 hours since
\* the epoch): the last two digits of the year, the month and the day of
\* 1970-01-(t+1), or of 1969-12-(32+t) before the epoch
ToISOString(t) ==
  IF t >= 0
  THEN <<7, 0, 0, 1, (t + 1) \div 10, (t + 1) % 10>>
  ELSE <<6, 9, 1, 2, (32 + t) \div 10, (32 + t) % 10>>

\* generated_at <= ?
TextLessOrEqual(a, b) ==
  \/ a = b
  \/ \E i \in 1..Len(a) :
       /\ i <= Len(b)
       /\ \A j \in 1..(i - 1) : a[j] = b[j]
       /\ a[i] < b[i]

\* generated_at < ?: SQLite compares the two TEXT values character by character
TextLess(a, b) ==
  \/ \E i \in 1..Len(a) :
       /\ i <= Len(b)
       /\ \A j \in 1..(i - 1) : a[j] = b[j]
       /\ a[i] < b[i]
  \/ (Len(a) < Len(b) /\ \A j \in 1..Len(a) : a[j] = b[j])

\* pruneSnapshots(dataDir, maxAgeMs):
\* DELETE FROM miner_snapshots WHERE generated_at < cutoff
PruneSnapshotsOlderThan(h, dateNow, maxAge) ==
  LET w == OpenHubWrite(h)
      cutoff == ToISOString(dateNow - maxAge)
  IN [w EXCEPT !.rows = SelectSeq(w.rows,
        LAMBDA r : ~TextLess(ToISOString(r.generated_at), cutoff))]

\* pruneSnapshots(dataDir), maxAgeMs at its default
PruneSnapshotsNoRetention(h, dateNow) == PruneSnapshotsOlderThan(h, dateNow, 0)
PruneSnapshots(h, dateNow) == PruneSnapshotsOlderThan(h, dateNow, maxAgeUnits)

\* parseSnapshotRow / the tail of loadLatestSnapshot
ParseSnapshotRow(row) ==
  [generatedAt |-> row.generated_at,
   bitcoinBlockHeight |-> row.bitcoin_block_height,
   sortitionId |-> row.sortition_id,
   minerPower |-> JsonParse(row.miner_power_json),
   minerViz |-> [generatedAt |-> row.generated_at,
                 bitcoinBlockHeight |-> row.bitcoin_block_height,
                 sortitionId |-> row.sortition_id,
                 d2Source |-> row.d2_source]]

\* loadLatestSnapshot: the read-only open raises when the file is missing
\* (it is outside the inner try); "no such table" and no row give null;
\* ORDER BY rowid DESC LIMIT 1 is the row inserted last
LoadLatestSnapshotAscending(h) ==
  IF ~h.file THEN [status |-> "throw"]
  ELSE IF ~h.table THEN [status |-> "null"]
  ELSE IF h.rows = <<>> THEN [status |-> "null"]
  ELSE [status |-> "record", rec |-> ParseSnapshotRow(h.rows[1])]
LoadLatestSnapshot(h) ==
  IF ~h.file THEN [status |-> "throw"]
  ELSE IF ~h.table THEN [status |-> "null"]
  ELSE IF h.rows = <<>> THEN [status |-> "null"]
  ELSE [status |-> "record", rec |-> ParseSnapshotRow(h.rows[Len(h.rows)])]

(***************************************************************************)
(* One run of the pipeline (snapshot-job.ts, generateSnapshot).            *)
(***************************************************************************)
\* computeMinerVizSnapshot: the record's header fields and the diagram source
ComputeMinerVizSnapshot(lower, start, generatedAt, sid, run) ==
  [bitcoinBlockHeight |-> start,
   generatedAt |-> generatedAt,
   sortitionId |-> sid,
   d2Source |-> [lowerBound |-> lower, startBlock |-> start, run |-> run]]

\* computeMinerPowerSnapshot: the header fields of the power payload
\* (generatedAt ?? new Date().toISOString())
PowerHeaderFresh(bitcoinBlockHeight, sortitionId, generatedAt, dateNow, run) ==
  [generatedAt |-> dateNow,
   bitcoinBlockHeight |-> bitcoinBlockHeight,
   sortitionId |-> sortitionId,
   run |-> run]
PowerHeader(bitcoinBlockHeight, sortitionId, generatedAt, dateNow, run) ==
  [generatedAt |-> IF generatedAt = Null THEN dateNow ELSE generatedAt,
   bitcoinBlockHeight |-> bitcoinBlockHeight,
   sortitionId |-> sortitionId,
   run |-> run]

\* if (latestSnapshot?.bitcoinBlockHeight === start)
AlreadyCachedNever(latestSnapshot, start) == FALSE
AlreadyCached(latestSnapshot, start) ==
  /\ latestSnapshot.status = "record"
  /\ latestSnapshot.rec.bitcoinBlockHeight = start

\* the steps of generateSnapshot at which an exception is raised by the stores
FailPoints == {"none", "source", "load", "compute", "insert", "prune"}

\* the steps at which an attempt may meet an exception of the stores
FailPointsNow == IF storesRaise THEN FailPoints ELSE {"none"}

Outcome(o, h, mid, n) == [outcome |-> o, hub |-> h, mid |-> mid, app |-> n]

\* if (start === 0) { warn; return; } with start = row?.maxHeight ?? 0
NoBlockCommitsNever(start) == FALSE
NoBlockCommits(start) == start = 0

\* generateSnapshot(dataDir): h the Cache Store, start the upper-bound height,
\* t the clock at entry, d the time the attempt takes, sid the sortition id of
\* the window's latest round, fp the step that raises, run the number of the row
\* this attempt would append
GenerateSnapshot(h, start, t, d, sid, fp, run) ==
  IF fp = "source" THEN Outcome("throw", h, h, 0)
  ELSE IF NoBlockCommits(start) THEN Outcome("notready", h, h, 0)
  ELSE
    LET latestSnapshot == LoadLatestSnapshot(h) IN
    IF latestSnapshot.status = "throw" \/ fp = "load" THEN Outcome("throw", h, h, 0)
    ELSE IF AlreadyCached(latestSnapshot, start) THEN Outcome("noop", h, h, 0)
    ELSE IF fp = "compute" THEN Outcome("throw", h, h, 0)
    ELSE
      LET lowerBoundViz == Max(0, start - MINER_VIZ_WINDOW)
          minerViz == ComputeMinerVizSnapshot(lowerBoundViz, start, t, sid, run)
          minerPower == PowerHeader(start, minerViz.sortitionId, t, t + d, run)
          rec == [generatedAt |-> t,
                  bitcoinBlockHeight |-> start,
                  sortitionId |-> minerViz.sortitionId,
                  minerPower |-> minerPower,
                  minerViz |-> minerViz]
          hIns == InsertSnapshot(h, rec)
      IN IF fp = "insert" THEN Outcome("throw", OpenHubWrite(h), OpenHubWrite(h), 0)
         ELSE IF fp = "prune" THEN Outcome("throw", hIns, hIns, 1)
         ELSE Outcome("ok", PruneSnapshots(hIns, t + d), hIns, 1)

(***************************************************************************)
(* The scheduler (snapshot-job.ts, runSnapshotGeneration and               *)
(* initializeSnapshotScheduler).                                           *)
(***************************************************************************)
NoTick == [outcome |-> "none", app |-> 0, rows0 |-> <<>>, rows1 |-> <<>>,
           attempts |-> 0, delays |-> <<>>, outs |-> <<>>]

NotLoaded == [called |-> FALSE, from |-> "none", result |-> [status |-> "null"]]

\* a run that has made no attempt yet
NewRun == [attempt |-> 0, delay |-> 0, delays |-> <<>>, outs |-> <<>>, app |-> 0,
           rows0 |-> hub.rows, h0 |-> sortMax, age |-> 0]

Older(r) == [r EXCEPT !.age = IF @ < 2 THEN @ + 1 ELSE 2]

\* the most recent Snapshot Record is for the upstream height
Cached == AlreadyCached(LoadLatestSnapshot(hub), sortMax)

Last2(s) == IF Len(s) > 2 THEN SubSeq(s, Len(s) - 1, Len(s)) ELSE s

\* the log of the last two ticks after one more tick arrived
Arrive(e) == Last2(Append(ticks, e))

\* the log after the tick that arrived `age` ticks ago ended, having appended n rows
Ended(log, age, n) ==
  IF age < Len(log)
  THEN [log EXCEPT ![Len(log) - age] = [@ EXCEPT !.done = TRUE, !.app = n]]
  ELSE log

\* the log after the upstream height changed
Changed(log) == [j \in 1..Len(log) |-> [log[j] EXCEPT !.chg = TRUE]]

RemoveAt(s, i) == SubSeq(s, 1, i - 1) \o SubSeq(s, i + 1, Len(s))

\* the name of a tick's result, from the outcome of its last attempt
TickOutcome(o) == IF o = "ok" THEN "written" ELSE IF o = "throw" THEN "failed" ELSE o

\* if (isRunning) { warn; return; }
TickSkipsNever(running) == FALSE
TickSkips(running) == running

\* const delay = 2000 * attempt
RetryDelay(attempt) == RetryDelayMs * attempt

\* if (attempt < maxRetries) { ...; await Bun.sleep(delay); }
RetriesLeftOneMore(attempt) == attempt < maxRetries + 1
RetriesLeft(attempt) == attempt < maxRetries

\* isRunning = false, the statement after the for loop, given the outcome
\* of the loop's last attempt
RunningAfterLoopBreakOnly(outcome) == outcome = "throw"
RunningAfterLoop(outcome) == FALSE

\* the time one synchronous attempt may take: less than the retention window
\* would not let a run prune its own record; at most the retention window
RunTimes == 0..maxAgeUnits

\* latestSnapshot?.sortition_id of the round at the window's highest height
SortitionIdAt(height) == 100 + height

\* the attempt gets as far as the insert, where the time it took matters
Reaches(fp) == fp \in {"none", "prune"}

\* One iteration of the for loop of runSnapshotGeneration, from the call of
\* generateSnapshot to the next suspension (Bun.sleep) or to the end of the run.
\* r: the run before the attempt; i: its position in runs (0: a new run)
Attempt(r, i) ==
  \E fp \in FailPointsNow, d \in RunTimes :
    /\ now + d <= MaxTime
    /\ Reaches(fp) \/ d = 0
    /\ \E res \in {GenerateSnapshot(hub, sortMax, now, d, SortitionIdAt(sortMax), fp,
                                     appended + 1)} :
       LET k == r.attempt + 1
           r2 == [r EXCEPT !.attempt = k,
                           !.outs = Append(@, res.outcome),
                           !.app = @ + res.app]
           others == IF i = 0 THEN [j \in 1..Len(runs) |-> Older(runs[j])]
                     ELSE RemoveAt(runs, i)
           log == IF i = 0
                  THEN Arrive([done |-> FALSE, skip |-> FALSE, app |-> 0, chg |-> FALSE,
                               had |-> Cached])
                  ELSE ticks
       IN /\ started' = (i = 0)
          /\ hub' = res.hub
          /\ hubMid' = res.mid
          /\ now' = now + d
          /\ appended' = appended + res.app
          /\ IF res.outcome = "throw" /\ RetriesLeft(k)
             THEN \* await Bun.sleep(delay)
                  /\ runs' = Append(others, [r2 EXCEPT !.delay = RetryDelay(k),
                                                       !.delays = Append(@, RetryDelay(k))])
                  /\ isRunning' = TRUE
                  /\ fin' = NoTick
                  /\ ticks' = log
             ELSE \* break, or all attempts failed; isRunning = false
                  /\ runs' = others
                  /\ isRunning' = RunningAfterLoop(res.outcome)
                  /\ fin' = [outcome |-> TickOutcome(res.outcome), app |-> r2.app,
                             rows0 |-> r2.rows0, rows1 |-> res.hub.rows,
                             attempts |-> k, delays |-> r2.delays, outs |-> r2.outs]
                  /\ ticks' = Ended(log, r2.age, r2.app)
    /\ loaded' = NotLoaded
    /\ UNCHANGED <<storesRaise, dataDir, sortMax>>
    /\ UNCHANGED <<gvars, pvars, xvars>>

\* a step that ends no tick and reads nothing
Quiet ==
  /\ UNCHANGED <<gvars, pvars, xvars>>
  /\ started' = FALSE
  /\ fin' = NoTick
  /\ loaded' = NotLoaded
  /\ hubMid' = hub

\* runSnapshotGeneration() up to its first suspension
RunSnapshotGeneration ==
  IF TickSkips(isRunning)
  THEN /\ started' = FALSE
       /\ runs' = [j \in 1..Len(runs) |-> Older(runs[j])]
       /\ fin' = [NoTick EXCEPT !.outcome = "skipped", !.rows0 = hub.rows, !.rows1 = hub.rows]
       /\ ticks' = Arrive([done |-> TRUE, skip |-> TRUE, app |-> 0, chg |-> FALSE,
                           had |-> Cached])
       /\ loaded' = NotLoaded
       /\ hubMid' = hub
       /\ UNCHANGED <<storesRaise, dataDir, isRunning, hub, sortMax, now, appended>>
       /\ UNCHANGED <<gvars, pvars, xvars>>
  ELSE IF ~dataDir
  THEN /\ Quiet
       /\ UNCHANGED <<storesRaise, dataDir, isRunning, runs, hub, sortMax, now, appended, ticks>>
  ELSE Attempt(NewRun, 0)

\* initializeSnapshotScheduler()
InitializeSnapshotScheduler ==
  IF ~dataDir
  THEN /\ Quiet
       /\ UNCHANGED <<storesRaise, dataDir, snapshotCron, isRunning, runs, hub, sortMax, now,
                      appended, ticks>>
  ELSE IF snapshotCron
  THEN /\ Quiet
       /\ UNCHANGED <<storesRaise, dataDir, snapshotCron, isRunning, runs, hub, sortMax, now,
                      appended, ticks>>
  ELSE /\ RunSnapshotGeneration
       /\ snapshotCron' = TRUE

\* the Cron callback
CronTick ==
  /\ snapshotCron
  /\ RunSnapshotGeneration
  /\ UNCHANGED snapshotCron

\* Bun.sleep(delay) of a suspended run elapses: the loop goes to its next attempt
Wake ==
  \E i \in 1..Len(runs) :
    /\ Attempt(runs[i], i)
    /\ UNCHANGED snapshotCron

(***************************************************************************)
(* The environment: the stacks node appends commitments, time passes, and  *)
(* request threads read the Cache Store.                                   *)
(***************************************************************************)
SortitionAppend ==
  /\ sortMax < MaxHeight
  /\ sortMax' = sortMax + 1
  /\ ticks' = Changed(ticks)
  /\ Quiet
  /\ UNCHANGED <<storesRaise, dataDir, snapshotCron, isRunning, runs, hub, now, appended>>

ClockAdvance ==
  /\ now < MaxTime
  /\ now' = now + 1
  /\ Quiet
  /\ UNCHANGED <<storesRaise, dataDir, snapshotCron, isRunning, runs, hub, sortMax, appended, ticks>>

\* what a reader finds: no file, no table, no row, or rows
StoreKind(h) ==
  IF ~h.file THEN "nofile"
  ELSE IF ~h.table THEN "notable"
  ELSE IF h.rows = <<>> THEN "norows" ELSE "rows"

\* a request thread calls loadLatestSnapshot on the store as it is now, or as
\* it was between the insert and the prune of the attempt just made
ReaderLoad ==
  \E view \in {hub, hubMid} :
    /\ loaded' = [called |-> TRUE, from |-> StoreKind(view),
                  result |-> LoadLatestSnapshot(view)]
    /\ started' = FALSE
    /\ fin' = NoTick
    /\ UNCHANGED <<gvars, pvars, xvars>>
    /\ UNCHANGED <<storesRaise, dataDir, snapshotCron, isRunning, runs, hub, hubMid, sortMax, now,
                   appended, ticks>>

\* no call of computeMinerVizSnapshot is followed
GraphOff ==
  /\ gPc = "off"
  /\ blockCommitsTable = {}
  /\ lowerBound = 0
  /\ startBlock = 0
  /\ allCommits = <<>>
  /\ winningBlockTxid = <<>>
  /\ tipTxid = <<>>
  /\ isHead = FALSE
  /\ visited = <<>>

\* no call of computeMinerPowerSnapshot is followed
PowerOff ==
  /\ pPc = "off"
  /\ headers = {}
  /\ payments = <<>>
  /\ burnFees = <<>>
  /\ powerLowerBound = 0
  /\ windowSize = 0
  /\ countedRows = 0
  /\ items = <<>>

\* no call of buildMinerAddressMaps is followed
MapsOff ==
  /\ mPc = "off"
  /\ mapPayments = <<>>
  /\ chain = <<>>
  /\ mapLimit = 0
  /\ mapRows = <<>>
  /\ stacksToBtc = <<>>
  /\ btcToStacks = <<>>

NoOp == [kind |-> "none"]

\* the Cache Store is not followed on its own
StoreOff ==
  /\ cache = [file |-> FALSE, table |-> FALSE, rows |-> <<>>]
  /\ clock = 0
  /\ op = NoOp

\* process.env.STACKS_DATA_DIR is not set
EnvUnset == [set |-> FALSE, value |-> <<>>]

\* the process startup is not followed
WorkerOff ==
  /\ processEnv = EnvUnset
  /\ snapshotWorker = FALSE
  /\ workerBooted = FALSE
  /\ workerCron = FALSE
  /\ startupRuns = 0
  /\ storesOpened = 0
  /\ workersCreated = 0
  /\ timersCreated = 0
  /\ consoleLog = <<>>

NoCall == [fn |-> "none"]

\* no text helper is called
TextOff == fnCall = NoCall

\* no call of processWinningBlocks is followed
WinnersOff ==
  /\ winPc = "off"
  /\ snapshotsTable = <<>>
  /\ paymentsTable = <<>>
  /\ feesTable = <<>>

\* no spend query is followed
SpendOff ==
  /\ spendPc = "off"
  /\ commitRows = <<>>
  /\ spendStart = 0
  /\ burnFeeRows = <<>>

\* no connection is followed
ConnOff ==
  /\ attemptNo = 0
  /\ sleeping = FALSE
  /\ handles = {}
  /\ attachedDb = FALSE
  /\ attemptEnds = <<>>

ExtrasOff ==
  /\ MapsOff
  /\ StoreOff
  /\ WorkerOff
  /\ TextOff
  /\ WinnersOff
  /\ SpendOff
  /\ ConnOff

\* hub.sqlite at process start: absent, created without its table, or with an
\* empty table
HubStates == {[file |-> FALSE, table |-> FALSE, rows |-> <<>>],
              [file |-> TRUE, table |-> FALSE, rows |-> <<>>],
              [file |-> TRUE, table |-> TRUE, rows |-> <<>>]}

\* the process before its startup call
InitScheduler ==
  /\ dataDir \in BOOLEAN
  /\ snapshotCron = FALSE
  /\ isRunning = FALSE
  /\ runs = <<>>
  /\ hub \in HubStates
  /\ hubMid = hub
  /\ sortMax = 0
  /\ now = 0
  /\ appended = 0
  /\ loaded = NotLoaded
  /\ started = FALSE
  /\ fin = NoTick
  /\ ticks = <<>>
  /\ GraphOff
  /\ PowerOff
  /\ ExtrasOff

Init ==
  /\ storesRaise = TRUE
  /\ InitScheduler

Next ==
  \/ InitializeSnapshotScheduler
  \/ CronTick
  \/ Wake
  \/ SortitionAppend
  \/ ClockAdvance
  \/ ReaderLoad

Spec == Init /\ [][Next]_vars

\* The scheduler with stores that raise no errors, a timer that keeps firing
\* (Cron) and retry delays that elapse (Bun.sleep)
InitNoErrors ==
  /\ storesRaise = FALSE
  /\ InitScheduler

SpecFair ==
  /\ InitNoErrors
  /\ [][Next]_vars
  /\ WF_vars(CronTick)
  /\ WF_vars(Wake)

(***************************************************************************)
(* Properties of the scheduler and the Cache Store.                        *)
(***************************************************************************)

\* C1: no two runs execute concurrently; a tick or startup call that arrives
\* while a run is in progress (it can only be waiting in its retry delay)
\* changes nothing and starts no run, and a run only ever starts in a tick or
\* startup step taken while no run is in progress, so none is queued.
C1_NoConcurrentRuns ==
  /\ [](Len(runs) <= 1 /\ (isRunning <=> runs # <<>>))
  /\ [][(isRunning /\ (CronTick \/ InitializeSnapshotScheduler))
          => (/\ UNCHANGED <<hub, isRunning, appended, now, sortMax>>
              /\ Len(runs') = Len(runs)
              /\ \A j \in 1..Len(runs) : runs'[j].attempt = runs[j].attempt
              /\ ~started')]_vars
  /\ [][started' => (~isRunning /\ (CronTick \/ InitializeSnapshotScheduler))]_vars

\* the tick that ended in the step just taken did so by success, no-op,
\* not-ready or failure of all its attempts
TickEnded(f) == f.outcome \in {"written", "noop", "notready", "failed"}

\* C25: when a tick ends, whether by success, no-op, not-ready or failure of
\* all attempts, the in-progress flag is clear; it stays clear until the next
\* tick, and that tick is not skipped and executes a run
C25_FailedTickNotFatal ==
  /\ [][TickEnded(fin') => ~isRunning']_vars
  /\ [][(~isRunning /\ isRunning') => (CronTick \/ InitializeSnapshotScheduler)]_vars
  /\ [][~isRunning => ((started' /\ fin'.outcome # "skipped") \/ ~CronTick)]_vars

\* the tick before the one that arrived in the step just taken ended without
\* a row although the upstream height, unchanged since, was not cached (so
\* all its attempts failed), and the tick that arrived now executes a run
C25_Witness ==
  /\ Len(ticks) = 2
  /\ ticks[1].done /\ ~ticks[1].skip /\ ticks[1].app = 0
  /\ ~ticks[1].had /\ ~ticks[1].chg
  /\ sortMax > 0
  /\ started
  /\ ~ticks[2].skip

\* the timer exists, the sortition store has commitments and the most recent
\* record is not for its highest height
Stale == snapshotCron /\ sortMax > 0 /\ ~Cached

\* C24: with timer ticks that keep coming and stores that raise no errors,
\* whenever the upstream height differs from the height of the most recent
\* record, also while the Cache Store does not exist yet, a record for the
\* upstream height is eventually the most recent one
C24_EventualFreshness == Stale ~> Cached

\* the same with a Cache Store file that exists
FreshnessOfExistingStore == (Stale /\ hub.file) ~> Cached

\* the timer has found the upstream height not cached while the Cache Store
\* file does not exist, and its attempt raised in loadLatestSnapshot
C24_Witness ==
  /\ ~storesRaise
  /\ Stale
  /\ ~hub.file
  /\ isRunning
  /\ Len(runs) = 1
  /\ runs[1].outs = <<"throw", "throw">>

\* the chainHeight values of the rows, in insertion order, strictly increase
StrictlyIncreasing(rows) ==
  \A i, j \in DOMAIN rows :
    i < j => rows[i].bitcoin_block_height < rows[j].bitcoin_block_height

\* C28: the upstream height never decreasing, the chainHeight of the records
\* the scheduler writes strictly increases in insertion order (every row
\* appended is above the row that was the latest before it), so the Cache
\* Store never holds two records of one chainHeight
C28_HeightsStrictlyIncrease ==
  /\ [](StrictlyIncreasing(hub.rows) /\ StrictlyIncreasing(hubMid.rows))
  /\ [][sortMax' >= sortMax]_vars
  /\ [][(appended' > appended /\ hub.rows # <<>>) =>
          /\ Len(hubMid'.rows) = Len(hub.rows) + 1
          /\ SubSeq(hubMid'.rows, 1, Len(hub.rows)) = hub.rows
          /\ hubMid'.rows[Len(hubMid'.rows)].bitcoin_block_height
               > hub.rows[Len(hub.rows)].bitcoin_block_height]_vars

\* the store holds two records, written by two ticks at two upstream heights
C28_Witness ==
  /\ fin.outcome = "written"
  /\ Len(hub.rows) = 2
  /\ hub.rows[1].bitcoin_block_height = 1
  /\ hub.rows[2].bitcoin_block_height = 2

\* C29: once a record has been written the Cache Store never becomes empty
\* again: rows are deleted only in a step that has inserted one, the row
\* inserted in a step survives the step (a run lasting no longer than the
\* retention window), and loadLatestSnapshot never goes back from a record
\* to 'not ready'
C29_NeverEmptyAgain ==
  /\ [](appended > 0 => (hub.rows # <<>> /\ hubMid.rows # <<>>))
  /\ [][LoadLatestSnapshot(hub).status = "record" =>
          LoadLatestSnapshot(hub').status = "record"]_vars
  /\ [][(\E i \in DOMAIN hub.rows : \A j \in DOMAIN hub'.rows : hub'.rows[j] # hub.rows[i])
          => appended' > appended]_vars
  /\ [][appended' > appended =>
          /\ hub'.rows # <<>>
          /\ hub'.rows[Len(hub'.rows)] = hubMid'.rows[Len(hubMid'.rows)]
          /\ hub'.rows[Len(hub'.rows)].miner_power_json.json.run = appended']_vars

\* a run that took as long as the retention window has pruned the older
\* record and kept the one it inserted
C29_Witness ==
  /\ fin.outcome = "written"
  /\ fin.rows0 # <<>>
  /\ Len(hubMid.rows) = 2
  /\ Len(hub.rows) = 1
  /\ hub.rows[1] = hubMid.rows[2]

\* a tick was skipped while the run in progress waits in its retry delay
C1_Witness == fin.outcome = "skipped" /\ isRunning /\ Len(runs) = 1

\* two consecutive ticks have both ended and the upstream height, which
\* exists, has not changed since the first of them arrived
ConsecutiveTicksSameHeight ==
  /\ Len(ticks) = 2
  /\ ticks[1].done /\ ticks[2].done
  /\ ~ticks[1].chg
  /\ sortMax > 0

\* C2 as stated: across two consecutive ticks with an unchanged upstream
\* height exactly one Snapshot Record is written (stated here for two ticks
\* that both executed a run; a skipped tick writes nothing either).
C2_ExactlyOneRecord ==
  (ConsecutiveTicksSameHeight /\ ~ticks[1].skip /\ ~ticks[2].skip)
    => ticks[1].app + ticks[2].app = 1

\* C2: across two consecutive ticks with an unchanged upstream height at most
\* one Snapshot Record is written (so none by the second tick when the first
\* wrote one), and none is written when the cache already held that height
\* when the first tick arrived.
C2_AtMostOneRecord ==
  ConsecutiveTicksSameHeight =>
    /\ ticks[1].app + ticks[2].app <= 1
    /\ ticks[1].app = 1 => ticks[2].app = 0
    /\ ticks[1].had => ticks[1].app + ticks[2].app = 0

\* the first tick wrote the record and the second, at the same height, wrote none
C2_Witness ==
  /\ ConsecutiveTicksSameHeight
  /\ ticks[1].app = 1 /\ ticks[2].app = 0
  /\ ~ticks[1].skip /\ ~ticks[2].skip
  /\ fin.outcome = "noop"

\* C3: a tick appends exactly one row when its run stores a new snapshot and
\* none otherwise (skipped tick, unchanged-height no-op, not-ready source, all
\* attempts failed); a retried run never appends two rows.
C3_OneRowPerWrittenTick ==
  fin.outcome # "none" =>
    /\ fin.app <= 1
    /\ fin.outcome = "written" => fin.app = 1
    /\ fin.outcome \in {"skipped", "notready", "failed"} => fin.app = 0
    /\ (fin.outcome = "noop" /\ fin.attempts = 1) => fin.app = 0

\* C4: a tick whose attempts all raised leaves the Cache Store with exactly
\* the records it held when the tick began.
C4_FailedTickKeepsCache ==
  fin.outcome = "failed" => (fin.rows1 = fin.rows0 /\ fin.app = 0)

Linear(delays) == \A j \in 1..Len(delays) : delays[j] = 2000 * j

\* C5: a run makes at most 3 attempts; every attempt but the last raised; the
\* retry after failed attempt j is preceded by a delay of 2000*j ms; the first
\* attempt that does not raise ends the tick, and no delay follows attempt 3.
C5_BoundedRetries ==
  /\ \A j \in 1..Len(runs) :
       /\ runs[j].attempt \in 1..2
       /\ Len(runs[j].delays) = runs[j].attempt
       /\ runs[j].delay = 2000 * runs[j].attempt
       /\ Linear(runs[j].delays)
       /\ \A a \in 1..Len(runs[j].outs) : runs[j].outs[a] = "throw"
  /\ fin.outcome \notin {"none", "skipped"} =>
       /\ fin.attempts \in 1..3
       /\ Len(fin.outs) = fin.attempts
       /\ Len(fin.delays) = fin.attempts - 1
       /\ Linear(fin.delays)
       /\ \A a \in 1..(fin.attempts - 1) : fin.outs[a] = "throw"
       /\ fin.outs[fin.attempts] = "throw" <=> fin.outcome = "failed"
       /\ fin.outcome = "failed" => fin.attempts = 3

\* three attempts raised, with delays of 2000 and 4000 ms between them
C5_Witness ==
  fin.outcome = "failed" /\ fin.attempts = 3 /\ fin.delays = <<2000, 4000>>

\* a record's parts come from one run and agree on its header fields
SelfConsistent(rec) ==
  /\ rec.minerPower.generatedAt = rec.generatedAt
  /\ rec.minerPower.bitcoinBlockHeight = rec.bitcoinBlockHeight
  /\ rec.minerPower.sortitionId = rec.sortitionId
  /\ rec.minerPower.run = rec.minerViz.d2Source.run
  /\ rec.minerViz.d2Source.startBlock = rec.bitcoinBlockHeight

\* C6: every record a reader loads, and every row the store holds now or held
\* between the insert and the prune of an attempt, is complete and
\* self-consistent.
C6_RecordsSelfConsistent ==
  /\ (loaded.called /\ loaded.result.status = "record") => SelfConsistent(loaded.result.rec)
  /\ \A j \in 1..Len(hub.rows) : SelfConsistent(ParseSnapshotRow(hub.rows[j]))
  /\ \A j \in 1..Len(hubMid.rows) : SelfConsistent(ParseSnapshotRow(hubMid.rows[j]))

\* a reader loaded a record just after an attempt that inserted a row and
\* pruned an older one
C6_Witness ==
  /\ loaded.called /\ loaded.result.status = "record"
  /\ Len(hubMid.rows) > Len(hub.rows)
  /\ SelfConsistent(loaded.result.rec)

\* C7: loadLatestSnapshot reports null, and does not raise, when the store
\* file is missing, when its table is missing and when the table has no rows.
C7_LoadToleratesAbsentStore ==
  (loaded.called /\ loaded.from \in {"nofile", "notable", "norows"})
    => loaded.result.status = "null"

(***************************************************************************)
(* computeMinerPowerSnapshot (miner-power-service.ts).                      *)
(***************************************************************************)

MaxBurnHeight == 3
MaxPaymentRows == 3
MaxWindow == 2

\* the scheduler is not followed
SchedulerOff ==
  /\ storesRaise = FALSE
  /\ dataDir = FALSE
  /\ snapshotCron = FALSE
  /\ isRunning = FALSE
  /\ runs = <<>>
  /\ hub = [file |-> FALSE, table |-> FALSE, rows |-> <<>>]
  /\ hubMid = hub
  /\ sortMax = 0
  /\ now = 0
  /\ appended = 0
  /\ loaded = NotLoaded
  /\ started = FALSE
  /\ fin = NoTick
  /\ ticks = <<>>

BurnHeights == 1..MaxBurnHeight
\* payments.recipient; "" stands for NULL
RecipientValues == <<"", "SP_A", "SP_B">>
IndexBlockHash(h) == <<"hash", h>>

\* the k-th payment row of the input universe: one per (block, recipient)
PaymentRow(k) ==
  LET h == ((k - 1) \div Len(RecipientValues)) + 1
      r == RecipientValues[((k - 1) % Len(RecipientValues)) + 1]
  IN [index_block_hash |-> IndexBlockHash(h),
      recipient |-> r,
      burnchain_commit_burn |-> 5000 * (h % 2),
      stx_reward |-> 1000000]

\* payments tables: up to MaxPaymentRows rows, several rows may name one block
PaymentTables ==
  LET K == MaxBurnHeight * Len(RecipientValues)
      Idx == UNION {[1..n -> 1..K] : n \in 0..MaxPaymentRows}
  IN {[j \in 1..Len(s) |-> PaymentRow(s[j])] :
        s \in {q \in Idx : \A i \in 1..Len(q) : \A j \in i..Len(q) : q[i] <= q[j]}}

\* MinerAddressMaps passed by generateSnapshot
StacksToBtc == [a \in {"SP_A"} |-> "BTC_A"]
BtcToStacks == [b \in {"BTC_A"} |-> {"SP_A"}]

RECURSIVE RecentTenureChanges(_, _)
\* WITH recent_tenure_changes: the n highest tenure-change heights, descending
RecentTenureChanges(H, n) ==
  IF n = 0 \/ H = {} THEN <<>>
  ELSE LET m == CHOOSE x \in H : \A y \in H : y <= x
       IN <<m>> \o RecentTenureChanges(H \ {m}, n - 1)

\* JOIN payments ON payments.index_block_hash = recent_tenure_changes.index_block_hash
JoinPayments(h, pay) ==
  LET sel == SelectSeq(pay, LAMBDA r : r.index_block_hash = IndexBlockHash(h))
  IN [j \in 1..Len(sel) |->
        [burn_header_height |-> h,
         address |-> sel[j].recipient,
         burnchain_commit_burn |-> sel[j].burnchain_commit_burn,
         stx_reward |-> sel[j].stx_reward]]

RECURSIVE JoinAll(_, _)
JoinAll(hs, pay) ==
  IF hs = <<>> THEN <<>>
  ELSE JoinPayments(Head(hs), pay) \o JoinAll(Tail(hs), pay)

\* blockStmt.all(lowerBound, windowSize)
BlockRows(H, pay, lb, ws) ==
  JoinAll(RecentTenureChanges({h \in H : h > lb}, ws), pay)

MapGet(m, k, default) == IF k \in DOMAIN m THEN m[k] ELSE default
MapSet(m, k, v) == [x \in DOMAIN m \cup {k} |-> IF x = k THEN v ELSE m[x]]

EmptyTotals == [blocksWon |-> <<>>, btcSpent |-> <<>>, stxEarned |-> <<>>,
                order |-> <<>>, countedRows |-> 0]

\* the body of the loop over blockRows
CountRow(acc, row, lb) ==
  IF row.burn_header_height <= lb THEN acc
  ELSE IF row.address = "" THEN acc
  ELSE LET addr == row.address
       IN [blocksWon |-> MapSet(acc.blocksWon, addr, MapGet(acc.blocksWon, addr, 0) + 1),
           btcSpent |-> MapSet(acc.btcSpent, addr,
                               MapGet(acc.btcSpent, addr, 0) + row.burnchain_commit_burn),
           stxEarned |-> MapSet(acc.stxEarned, addr,
                                MapGet(acc.stxEarned, addr, 0) + row.stx_reward),
           order |-> IF addr \in DOMAIN acc.blocksWon THEN acc.order
                     ELSE Append(acc.order, addr),
           countedRows |-> acc.countedRows + 1]

RECURSIVE CountRows(_, _, _)
CountRows(acc, rows, lb) ==
  IF rows = <<>> THEN acc
  ELSE CountRows(CountRow(acc, Head(rows), lb), Tail(rows), lb)

\* btcSpent.set(stacksAddr, btcSpent.get(stacksAddr) + row.total_burn_fee)
BurnFeeSpendAdded(current, total_burn_fee) == current + total_burn_fee

\* the value btcSpent.set(stacksAddr, row.total_burn_fee) stores
BurnFeeSpend(current, total_burn_fee) == total_burn_fee

RECURSIVE SetAll(_, _, _)
SetAll(m, ks, v) ==
  IF ks = {} THEN m
  ELSE LET k == CHOOSE x \in ks : TRUE
       IN SetAll(MapSet(m, k, BurnFeeSpend(MapGet(m, k, 0), v)), ks \ {k}, v)

RECURSIVE ApplyBurnFees(_, _, _)
\* the loop over burnFeeRows: btcSpent.set(stacksAddr, row.total_burn_fee)
ApplyBurnFees(btcSpent, fees, senders) ==
  IF senders = {} THEN btcSpent
  ELSE LET b == CHOOSE x \in senders : TRUE
           next == IF b \in DOMAIN BtcToStacks
                   THEN SetAll(btcSpent, BtcToStacks[b], fees[b])
                   ELSE btcSpent
       IN ApplyBurnFees(next, fees, senders \ {b})

\* one entry of items; winRate is won / windowSize * 100, kept as a fraction
PowerItem(addr, acc, btcSpent, ws) ==
  [stacksRecipient |-> addr,
   bitcoinAddress |-> MapGet(StacksToBtc, addr, "null"),
   blocksWon |-> acc.blocksWon[addr],
   btcSpent |-> MapGet(btcSpent, addr, 0),
   stxEarnt |-> [micro |-> MapGet(acc.stxEarned, addr, 0)],
   winRate |-> [num |-> acc.blocksWon[addr] * 100, den |-> ws]]

SentinelItem(missing, ws) ==
  [stacksRecipient |-> "No Canonical Sortition",
   bitcoinAddress |-> "null",
   blocksWon |-> missing,
   btcSpent |-> 0,
   stxEarnt |-> [micro |-> 0],
   winRate |-> [num |-> missing * 100, den |-> ws]]

\* const missing = Math.max(0, windowSize - countedRows)
Missing(ws, counted) == Max(0, ws - counted)

RECURSIVE InsertSorted(_, _)
InsertSorted(sorted, it) ==
  IF sorted = <<>> THEN <<it>>
  ELSE IF Head(sorted).blocksWon >= it.blocksWon
       THEN <<Head(sorted)>> \o InsertSorted(Tail(sorted), it)
       ELSE <<it>> \o sorted

RECURSIVE SortByBlocksWon(_)
\* items.sort((a, b) => b.blocksWon - a.blocksWon), a stable sort
SortByBlocksWon(its) ==
  IF its = <<>> THEN <<>>
  ELSE InsertSorted(SortByBlocksWon(SubSeq(its, 1, Len(its) - 1)), its[Len(its)])

\* the value computeMinerPowerSnapshot returns
PowerItems(H, pay, fees, lb, ws) ==
  LET acc == CountRows(EmptyTotals, BlockRows(H, pay, lb, ws), lb)
      btcSpent == ApplyBurnFees(acc.btcSpent, fees, DOMAIN fees)
      won == [j \in 1..Len(acc.order) |-> PowerItem(acc.order[j], acc, btcSpent, ws)]
      missing == Missing(ws, acc.countedRows)
      all == IF missing > 0 THEN Append(won, SentinelItem(missing, ws)) ELSE won
  IN [countedRows |-> acc.countedRows, items |-> SortByBlocksWon(all)]

ComputeMinerPowerSnapshot ==
  /\ pPc = "compute"
  /\ LET res == PowerItems(headers, payments, burnFees, powerLowerBound, windowSize)
     IN /\ countedRows' = res.countedRows
        /\ items' = res.items
  /\ pPc' = "done"
  /\ UNCHANGED <<headers, payments, burnFees, powerLowerBound, windowSize>>
  /\ UNCHANGED <<svars, gvars, xvars>>

InitPower ==
  /\ SchedulerOff
  /\ GraphOff
  /\ ExtrasOff
  /\ pPc = "compute"
  /\ headers \in SUBSET BurnHeights
  /\ payments \in PaymentTables
  /\ burnFees \in {<<>>, [b \in {"BTC_A"} |-> 7000]}
  /\ powerLowerBound \in {0, 1}
  /\ windowSize \in 1..MaxWindow
  /\ countedRows = 0
  /\ items = <<>>

NextPower == ComputeMinerPowerSnapshot

SpecPower == InitPower /\ [][NextPower]_vars

RECURSIVE SumBlocksWon(_)
SumBlocksWon(its) ==
  IF its = <<>> THEN 0 ELSE Head(its).blocksWon + SumBlocksWon(Tail(its))

\* C8: in every snapshot computeMinerPowerSnapshot returns, the blocksWon of
\* all rows, the sentinel row included, add up to the window size.
C8_CountReconciliation ==
  pPc = "done" => SumBlocksWon(items) = windowSize

\* a snapshot computed from a window in which one block has two payment rows,
\* so that more rows were counted than the window holds
C8_Witness ==
  /\ pPc = "done"
  /\ countedRows > windowSize
  /\ \E j \in 1..Len(payments) : \E k \in (j + 1)..Len(payments) :
        payments[j].index_block_hash = payments[k].index_block_hash

\* the spend total the reward rows alone give a recipient
RewardPathSpend(addr) ==
  MapGet(CountRows(EmptyTotals,
                   BlockRows(headers, payments, powerLowerBound, windowSize),
                   powerLowerBound).btcSpent, addr, 0)

\* the senders of the commitment store linked to a recipient
SendersOf(addr) == {b \in DOMAIN burnFees : b \in DOMAIN BtcToStacks /\ addr \in BtcToStacks[b]}

AttributedItems == {j \in 1..Len(items) : items[j].stacksRecipient # "No Canonical Sortition"}

\* C11 as stated: the commitment-store total replaces a recipient's spend
\* total only when the reward-path total is zero; a recipient with a non-zero
\* reward-path total keeps it.
C11_OverwriteOnlyWhenZero ==
  pPc = "done" =>
    \A j \in AttributedItems :
      LET addr == items[j].stacksRecipient IN
        /\ RewardPathSpend(addr) # 0 => items[j].btcSpent = RewardPathSpend(addr)
        /\ (RewardPathSpend(addr) = 0 /\ SendersOf(addr) # {}) =>
             \E b \in SendersOf(addr) : items[j].btcSpent = burnFees[b]

\* C11: the commitment-store total of a linked sender replaces (is not added
\* to) the recipient's spend total whatever the reward-path total is; a
\* recipient without a linked sender in the commitment store keeps its
\* reward-path total.
C11_OverwriteAlways ==
  pPc = "done" =>
    \A j \in AttributedItems :
      LET addr == items[j].stacksRecipient IN
        IF SendersOf(addr) # {}
        THEN \E b \in SendersOf(addr) : items[j].btcSpent = burnFees[b]
        ELSE items[j].btcSpent = RewardPathSpend(addr)

\* a recipient with a non-zero reward-path total whose linked sender has a
\* different commitment-store total, next to a recipient without a linked sender
C11_Witness ==
  /\ pPc = "done"
  /\ \E j \in AttributedItems :
       /\ SendersOf(items[j].stacksRecipient) # {}
       /\ RewardPathSpend(items[j].stacksRecipient) > 0
       /\ items[j].btcSpent # RewardPathSpend(items[j].stacksRecipient)
  /\ \E j \in AttributedItems :
       /\ SendersOf(items[j].stacksRecipient) = {}
       /\ items[j].btcSpent > 0

(***************************************************************************)
(* fetchCommitData and processCanonicalTip (miner-viz.ts).                 *)
(***************************************************************************)

MaxBlock == 3
MaxCommits == 3
GraphWindow == 1

\* vtxindex values of the commitments of one burn block
Vtxs == {0, 1}
Positions == (1..MaxBlock) \X Vtxs

\* the empty string, as a txid
NoTxid == <<>>
\* winning_block_txid of a burn block without a sortition winner
ZeroTxid == <<"tx", 0, 0>>
TxidAt(h, v) == <<"tx", h, v>>

\* the (parent_block_ptr, parent_vtxindex) a commitment at height h may carry:
\* the genesis pointer, or a position in an earlier burn block
ParentPtrs(h) == {<<0, 0>>} \cup ((1..(h - 1)) \X Vtxs)

BlockCommitRow(pos, ptr) ==
  [txid |-> TxidAt(pos[1], pos[2]),
   block_height |-> pos[1],
   vtxindex |-> pos[2],
   parent_block_ptr |-> ptr[1],
   parent_vtxindex |-> ptr[2]]

\* the tables of up to maxCommits rows
BlockCommitTables(maxCommits) ==
  UNION {{{BlockCommitRow(pos, f[pos]) : pos \in P} :
            f \in {g \in [P -> ParentPtrs(MaxBlock)] :
                     \A pos \in P : g[pos] \in ParentPtrs(pos[1])}} :
         P \in {Q \in SUBSET Positions : Cardinality(Q) \in 1..maxCommits}}

\* makeHashKey with the vtxindex left out
MakeHashKeyHeightOnly(height, vtxindex) == <<height>>

\* `${height}:${vtxindex}`
MakeHashKey(height, vtxindex) == <<height, vtxindex>>

\* WHERE block_height BETWEEN ? AND ?, with the lower bound left out
InWindowNoLower(height, lower, start) == height <= start

\* WHERE block_height BETWEEN ? AND ?
InWindow(height, lower, start) == lower <= height /\ height <= start

\* ORDER BY block_height ASC leaves the order of the rows of one burn block
\* open; both directions of vtxindex are tried
RowBefore(a, b, ties) ==
  \/ a.block_height < b.block_height
  \/ /\ a.block_height = b.block_height
     /\ IF ties = "asc" THEN a.vtxindex <= b.vtxindex ELSE a.vtxindex >= b.vtxindex

RECURSIVE OrderRows(_, _)
OrderRows(R, ties) ==
  IF R = {} THEN <<>>
  ELSE LET r == CHOOSE x \in R : \A y \in R : RowBefore(x, y, ties)
       IN <<r>> \o OrderRows(R \ {r}, ties)

\* stmt.all(lowerBound, startBlock)
QueryRows(table, lower, start, ties) ==
  OrderRows({r \in table : InWindow(r.block_height, lower, start)}, ties)

\* the body of the loop over rows
IngestRow(acc, row) ==
  LET key == MakeHashKey(row.block_height, row.vtxindex)
      parentKey == MakeHashKey(row.parent_block_ptr, row.parent_vtxindex)
      parentTxid == MapGet(acc.hashMap, parentKey, NoTxid)
      commit == [txid |-> row.txid,
                 vtxindex |-> row.vtxindex,
                 burnBlockHeight |-> row.block_height,
                 parentBlockPtr |-> row.parent_block_ptr,
                 parentVtxindex |-> row.parent_vtxindex,
                 parent |-> IF parentTxid # NoTxid THEN parentTxid ELSE NoTxid,
                 stacksHeight |-> 0,
                 blockHash |-> "",
                 won |-> FALSE,
                 canonical |-> FALSE,
                 tip |-> FALSE,
                 coinbaseEarned |-> 0,
                 feesEarned |-> 0,
                 potentialTip |-> FALSE,
                 key |-> key,
                 parentKey |-> parentKey]
  IN [allCommits |-> MapSet(acc.allCommits, commit.txid, commit),
      hashMap |-> MapSet(acc.hashMap, commit.key, commit.txid)]

RECURSIVE IngestRows(_, _)
IngestRows(acc, rows) ==
  IF rows = <<>> THEN acc
  ELSE IngestRows(IngestRow(acc, Head(rows)), Tail(rows))

FetchCommitData ==
  /\ gPc = "fetch"
  /\ \E ties \in {"asc", "desc"} :
       allCommits' = IngestRows([allCommits |-> <<>>, hashMap |-> <<>>],
                                QueryRows(blockCommitsTable, lowerBound, startBlock, ties)).allCommits
  /\ gPc' = "tip"
  /\ UNCHANGED <<blockCommitsTable, lowerBound, startBlock, winningBlockTxid, tipTxid,
                  isHead, visited>>
  /\ UNCHANGED <<svars, pvars, xvars>>

\* winning_block_txid of the snapshots row at startBlock: no row (or an empty
\* value), the all-zero txid, or the txid of a commitment of that burn block
WinningTxids ==
  {NoTxid, ZeroTxid} \cup
    {r.txid : r \in {x \in blockCommitsTable : x.block_height = startBlock}}

\* processCanonicalTip up to the loop
CanonicalTipStart ==
  /\ gPc = "tip"
  /\ \E winning_block_txid \in WinningTxids :
       /\ winningBlockTxid' = winning_block_txid
       /\ IF winning_block_txid = NoTxid
          THEN /\ gPc' = "done"
               /\ UNCHANGED <<tipTxid, isHead>>
          ELSE /\ tipTxid' = winning_block_txid
               /\ isHead' = TRUE
               /\ gPc' = "walk"
  /\ UNCHANGED <<blockCommitsTable, lowerBound, startBlock, allCommits, visited>>
  /\ UNCHANGED <<svars, pvars, xvars>>

\* tipTxid = commit.parent
NextTipNone(commit) == NoTxid
NextTip(commit) == commit.parent

\* one test of the loop condition and, when it holds, one pass of the loop body
CanonicalTipStep ==
  /\ gPc = "walk"
  /\ IF tipTxid = NoTxid \/ tipTxid \notin DOMAIN allCommits
     THEN /\ gPc' = "done"
          /\ UNCHANGED <<allCommits, tipTxid, isHead, visited>>
     ELSE LET commit == allCommits[tipTxid]
          IN /\ allCommits' = [allCommits EXCEPT ![tipTxid] =
                                 [@ EXCEPT !.tip = IF isHead THEN TRUE ELSE @,
                                           !.canonical = TRUE]]
             /\ isHead' = FALSE
             /\ tipTxid' = NextTip(commit)
             /\ visited' = Append(visited, commit.txid)
             /\ gPc' = "walk"
  /\ UNCHANGED <<blockCommitsTable, lowerBound, startBlock, winningBlockTxid>>
  /\ UNCHANGED <<svars, pvars, xvars>>

\* generateSnapshot passes startBlock = the highest commitment height it read
\* and lowerBound = max(0, startBlock - window); commitments may have been
\* appended above startBlock since
InitGraph ==
  /\ SchedulerOff
  /\ PowerOff
  /\ ExtrasOff
  /\ gPc = "fetch"
  /\ blockCommitsTable \in BlockCommitTables(MaxCommits)
  /\ startBlock \in {r.block_height : r \in blockCommitsTable}
  /\ lowerBound = Max(0, startBlock - GraphWindow)
  /\ allCommits = <<>>
  /\ winningBlockTxid = NoTxid
  /\ tipTxid = NoTxid
  /\ isHead = FALSE
  /\ visited = <<>>

NextGraph ==
  \/ FetchCommitData
  \/ CanonicalTipStart
  \/ CanonicalTipStep

SpecGraph == InitGraph /\ [][NextGraph]_vars

\* the rows of the queried window, read from the table
WindowRows == {r \in blockCommitsTable : lowerBound <= r.block_height /\ r.block_height <= startBlock}

\* a row of the window sits at the position the commitment names as its parent
ParentRowInWindow(c) ==
  \E r \in WindowRows :
    r.block_height = c.parentBlockPtr /\ r.vtxindex = c.parentVtxindex

\* C9: once fetchCommitData has run, a commitment's parent is non-empty exactly
\* when a commitment of the window sits at its (parentHeight, parentVtxindex);
\* a non-empty parent names that commitment of the same graph; a commitment
\* whose parent position lies below the lower bound has an empty parent.
C9_ParentResolution ==
  gPc \in {"tip", "walk", "done"} =>
    /\ DOMAIN allCommits = {r.txid : r \in WindowRows}
    /\ \A t \in DOMAIN allCommits :
         LET c == allCommits[t] IN
           /\ (c.parent # NoTxid) <=> ParentRowInWindow(c)
           /\ c.parent # NoTxid =>
                /\ c.parent \in DOMAIN allCommits
                /\ allCommits[c.parent].burnBlockHeight = c.parentBlockPtr
                /\ allCommits[c.parent].vtxindex = c.parentVtxindex
           /\ c.parentBlockPtr < lowerBound => c.parent = NoTxid

\* a graph with a resolved parent, with a commitment whose parent row exists
\* in the store below the lower bound, and with a commitment whose parent
\* position inside the window holds no row
C9_Witness ==
  /\ gPc = "tip"
  /\ \E t \in DOMAIN allCommits : allCommits[t].parent # NoTxid
  /\ \E t \in DOMAIN allCommits :
       /\ allCommits[t].parent = NoTxid
       /\ allCommits[t].parentBlockPtr < lowerBound
       /\ \E r \in blockCommitsTable :
            r.block_height = allCommits[t].parentBlockPtr
            /\ r.vtxindex = allCommits[t].parentVtxindex

\* C10: the canonical trace marks no commitment twice, marks at most as many
\* commitments as the window has heights, follows at most
\* startBlock - lowerBound parent pointers, and each marked commitment is
\* strictly lower than the one before it.
C10_CanonicalWalkBounded ==
  /\ \A i \in 1..Len(visited) : \A j \in (i + 1)..Len(visited) : visited[i] # visited[j]
  /\ Len(visited) <= startBlock - lowerBound + 1
  /\ Len(visited) >= 1 => Len(visited) - 1 <= startBlock - lowerBound
  /\ \A i \in 1..(Len(visited) - 1) :
       allCommits[visited[i + 1]].burnBlockHeight < allCommits[visited[i]].burnBlockHeight

\* a finished trace that followed a parent pointer and stopped at a window
\* root whose parent lies below the lower bound
C10_Witness ==
  /\ gPc = "done"
  /\ Len(visited) = startBlock - lowerBound + 1
  /\ Len(visited) >= 2
  /\ allCommits[visited[Len(visited)]].parentBlockPtr < lowerBound
  /\ allCommits[visited[Len(visited)]].parentBlockPtr > 0

\* the commitments reached from the set R by following resolved parent
\* pointers at most n times
RECURSIVE ParentClosure(_, _)
ParentClosure(R, n) ==
  IF n = 0 THEN R
  ELSE ParentClosure(R \cup {allCommits[t].parent : t \in {u \in R : allCommits[u].parent # NoTxid}},
                     n - 1)

\* C21: after the canonical trace, tip is set on the production winner of the
\* window's highest height and on nothing else, or on nothing when the winner
\* is no commitment of the graph; canonical is set on exactly the commitments
\* reached from the winner over resolved parent pointers, so the resolved
\* parent of a canonical commitment is canonical.
C21_TipAndCanonicalMarks ==
  gPc = "done" =>
    LET winner == {winningBlockTxid} \cap DOMAIN allCommits
        tips == {t \in DOMAIN allCommits : allCommits[t].tip}
        canonicals == {t \in DOMAIN allCommits : allCommits[t].canonical}
    IN /\ tips = winner
       /\ \A t \in winner : allCommits[t].burnBlockHeight = startBlock
       /\ canonicals = ParentClosure(winner, Cardinality(DOMAIN allCommits))
       /\ \A t \in canonicals :
            allCommits[t].parent # NoTxid => allCommits[allCommits[t].parent].canonical

\* a finished trace with a tip, a canonical parent of the tip, and a
\* commitment off the canonical chain
C21_Witness ==
  /\ gPc = "done"
  /\ winningBlockTxid \in DOMAIN allCommits
  /\ allCommits[winningBlockTxid].tip
  /\ allCommits[winningBlockTxid].parent # NoTxid
  /\ allCommits[allCommits[winningBlockTxid].parent].canonical
  /\ ~allCommits[allCommits[winningBlockTxid].parent].tip
  /\ \E t \in DOMAIN allCommits : ~allCommits[t].canonical

(***************************************************************************)
(* buildMinerAddressMaps (miner-power-service.ts).                         *)
(***************************************************************************)

MaxMapRows == 3

StacksAddresses == {"", "SP_A", "SP_B"}
IndexBlockHashes == {"index_hash_1", "index_hash_2"}

\* block_commits.apparent_sender is stored with or without surrounding quotes
ApparentSenders == [quoted : BOOLEAN, text : {"BTC_A", "BTC_B"}]

\* TRIM(apparent_sender, '"')
TrimQuotes(sender) == sender.text

\* what the three LEFT JOINs find for one index_block_hash: no header; a header
\* whose consensus_hash has no snapshots row; a snapshots row whose
\* winning_block_txid has no block_commits row; or a commitment and its sender
Chains ==
  {[header |-> FALSE, snapshot |-> FALSE, commit |-> FALSE, apparent_sender |-> [quoted |-> FALSE, text |-> ""]],
   [header |-> TRUE, snapshot |-> FALSE, commit |-> FALSE, apparent_sender |-> [quoted |-> FALSE, text |-> ""]],
   [header |-> TRUE, snapshot |-> TRUE, commit |-> FALSE, apparent_sender |-> [quoted |-> FALSE, text |-> ""]]}
  \cup {[header |-> TRUE, snapshot |-> TRUE, commit |-> TRUE, apparent_sender |-> a] :
          a \in ApparentSenders}

\* one row of the SELECT over recent_payments and its joins; "" stands for NULL
AddressMapRow(payment, ch) ==
  [stacksAddress |-> payment.recipient,
   bitcoinAddress |-> IF ch[payment.index_block_hash].commit
                      THEN TrimQuotes(ch[payment.index_block_hash].apparent_sender)
                      ELSE ""]

\* ORDER BY stacks_block_height DESC LIMIT ?, then the joins
AddressMapQuery(pay, ch, limit) ==
  LET recent == SubSeq(pay, 1, IF limit < Len(pay) THEN limit ELSE Len(pay))
  IN [j \in 1..Len(recent) |-> AddressMapRow(recent[j], ch)]

BuildMapsQuery ==
  /\ mPc = "query"
  /\ mapRows' = AddressMapQuery(mapPayments, chain, mapLimit)
  /\ stacksToBtc' = <<>>
  /\ btcToStacks' = <<>>
  /\ mPc' = "loop"
  /\ UNCHANGED <<mapPayments, chain, mapLimit>>
  /\ UNCHANGED <<svars, gvars, pvars>>
  /\ UNCHANGED mapsRest

\* stacksToBtc.has(stacksAddr) left out of the test
SkipsRowNoFirstSeen(row, s2b) ==
  row.stacksAddress = "" \/ row.bitcoinAddress = ""

\* if (!stacksAddr) continue; if (!btcAddr || stacksToBtc.has(stacksAddr)) continue
SkipsRow(row, s2b) ==
  row.stacksAddress = "" \/ row.bitcoinAddress = "" \/ row.stacksAddress \in DOMAIN s2b

\* btcToStacks.get(btcAddr)!.add(stacksAddr) left out
AddToSetNot(b2s, btcAddr, stacksAddr) == b2s

\* if (!btcToStacks.has(btcAddr)) btcToStacks.set(btcAddr, new Set());
\* btcToStacks.get(btcAddr)!.add(stacksAddr)
AddToSet(b2s, btcAddr, stacksAddr) ==
  MapSet(b2s, btcAddr, MapGet(b2s, btcAddr, {}) \cup {stacksAddr})

\* one pass of the loop over rows
BuildMapsRow ==
  /\ mPc = "loop"
  /\ mapRows # <<>>
  /\ LET row == Head(mapRows) IN
       IF SkipsRow(row, stacksToBtc)
       THEN UNCHANGED <<stacksToBtc, btcToStacks>>
       ELSE /\ stacksToBtc' = MapSet(stacksToBtc, row.stacksAddress, row.bitcoinAddress)
            /\ btcToStacks' = AddToSet(btcToStacks, row.bitcoinAddress, row.stacksAddress)
  /\ mapRows' = Tail(mapRows)
  /\ UNCHANGED <<mPc, mapPayments, chain, mapLimit>>
  /\ UNCHANGED <<svars, gvars, pvars>>
  /\ UNCHANGED mapsRest

\* the loop ends and the maps are returned
BuildMapsReturn ==
  /\ mPc = "loop"
  /\ mapRows = <<>>
  /\ mPc' = "done"
  /\ UNCHANGED <<mapPayments, chain, mapLimit, mapRows, stacksToBtc, btcToStacks>>
  /\ UNCHANGED <<svars, gvars, pvars>>
  /\ UNCHANGED mapsRest

InitMaps ==
  /\ SchedulerOff
  /\ GraphOff
  /\ PowerOff
  /\ StoreOff
  /\ WorkerOff
  /\ TextOff
  /\ WinnersOff
  /\ SpendOff
  /\ ConnOff
  /\ mPc = "query"
  /\ mapPayments \in UNION {[1..n -> [recipient : StacksAddresses, index_block_hash : IndexBlockHashes]] :
                             n \in 0..MaxMapRows}
  /\ chain \in [IndexBlockHashes -> Chains]
  /\ mapLimit \in {1, MaxMapRows}
  /\ mapRows = <<>>
  /\ stacksToBtc = <<>>
  /\ btcToStacks = <<>>

NextMaps ==
  \/ BuildMapsQuery
  \/ BuildMapsRow
  \/ BuildMapsReturn

SpecMaps == InitMaps /\ [][NextMaps]_vars

\* the rows the loop has seen so far
SeenRows ==
  LET all == AddressMapQuery(mapPayments, chain, mapLimit)
  IN SubSeq(all, 1, Len(all) - Len(mapRows))

\* the rows of a recipient that carry a miner, by position
MinerRows(R, rows) ==
  {j \in 1..Len(rows) : rows[j].stacksAddress = R /\ rows[j].bitcoinAddress # ""}

\* the miner of the first row that links the recipient to a miner, "" if none
FirstMiner(R, rows) ==
  IF MinerRows(R, rows) = {} THEN ""
  ELSE rows[CHOOSE j \in MinerRows(R, rows) : \A k \in MinerRows(R, rows) : j <= k].bitcoinAddress

\* C12: each recipient maps to at most one miner, the miner of the first row
\* seen that links that recipient to a miner; an association once made is
\* neither changed nor added to by later rows.
C12_FirstSeenWins ==
  /\ [](mPc \in {"loop", "done"} =>
          /\ "" \notin DOMAIN stacksToBtc
          /\ \A R \in StacksAddresses \ {""} :
               /\ IF FirstMiner(R, SeenRows) = ""
                  THEN R \notin DOMAIN stacksToBtc
                  ELSE R \in DOMAIN stacksToBtc /\ stacksToBtc[R] = FirstMiner(R, SeenRows)
               /\ Cardinality({S \in DOMAIN btcToStacks : R \in btcToStacks[S]}) <= 1)
  /\ [][mPc = "loop" =>
          \A R \in DOMAIN stacksToBtc :
            /\ R \in DOMAIN stacksToBtc' /\ stacksToBtc'[R] = stacksToBtc[R]
            /\ \A S \in DOMAIN btcToStacks' :
                 R \in btcToStacks'[S] => (S \in DOMAIN btcToStacks /\ R \in btcToStacks[S])]_vars

\* the maps returned after the loop saw two rows of one recipient that name
\* different miners
C12_Witness ==
  /\ mPc = "done"
  /\ \E R \in DOMAIN stacksToBtc :
       \E j, k \in MinerRows(R, SeenRows) :
         /\ j < k
         /\ SeenRows[j].bitcoinAddress # SeenRows[k].bitcoinAddress
         /\ stacksToBtc[R] = SeenRows[j].bitcoinAddress

\* the recipients whose rows within the limit all lead, through one header,
\* production round and winning commitment each, to the sender S
LinkedOnlyTo(R, S) ==
  /\ \E j \in 1..Len(SeenRows) : SeenRows[j].stacksAddress = R
  /\ \A j \in 1..Len(SeenRows) :
       SeenRows[j].stacksAddress = R => SeenRows[j].bitcoinAddress = S

\* C13: stacksToBtc[R] = S exactly when R is a member of btcToStacks[S], after
\* every row; a recipient whose rows all link to the sender S ends with
\* stacksToBtc[R] = S and R in btcToStacks[S].
C13_MapsConsistent ==
  mPc \in {"loop", "done"} =>
    /\ \A R \in StacksAddresses, S \in {"BTC_A", "BTC_B", ""} :
         (R \in DOMAIN stacksToBtc /\ stacksToBtc[R] = S)
           <=> (S \in DOMAIN btcToStacks /\ R \in btcToStacks[S])
    /\ \A S \in DOMAIN btcToStacks : btcToStacks[S] # {}
    /\ mPc = "done" =>
         \A R \in StacksAddresses \ {""}, S \in {"BTC_A", "BTC_B"} :
           LinkedOnlyTo(R, S) =>
             /\ R \in DOMAIN stacksToBtc /\ stacksToBtc[R] = S
             /\ S \in DOMAIN btcToStacks /\ R \in btcToStacks[S]

\* two recipients linked to one miner whose sender is stored with quotes
C13_Witness ==
  /\ mPc = "done"
  /\ \E S \in DOMAIN btcToStacks :
       /\ Cardinality(btcToStacks[S]) = 2
       /\ \A R \in btcToStacks[S] : LinkedOnlyTo(R, S)
  /\ \E h \in IndexBlockHashes : chain[h].commit /\ chain[h].apparent_sender.quoted

(***************************************************************************)
(* The Cache Store under direct calls and read requests                    *)
(* (snapshot-store.ts, api-utils.ts).                                      *)
(***************************************************************************)

MaxClock == 2
MaxStoreRows == 2
MaxStoreHeight == 2

\* the characters a height parameter is made of
HeightChars == {"1", "a"}
\* url.searchParams.get("height"): null, or a text of up to two characters
HeightStrs ==
  {[present |-> FALSE, text |-> <<>>]} \cup
  {[present |-> TRUE, text |-> t] : t \in UNION {[1..n -> HeightChars] : n \in 0..2}}

Digits == <<"0", "1", "2", "3", "4", "5", "6", "7", "8", "9">>
IsDigit(c) == \E i \in 1..Len(Digits) : Digits[i] = c
DigitValue(c) == (CHOOSE i \in 1..Len(Digits) : Digits[i] = c) - 1

\* parseInt(text, 10): the number the leading digits spell, NaN without one
ParseInt(text) ==
  IF text = <<>> \/ ~IsDigit(text[1]) THEN [nan |-> TRUE, value |-> 0]
  ELSE IF Len(text) >= 2 /\ IsDigit(text[2])
       THEN [nan |-> FALSE, value |-> 10 * DigitValue(text[1]) + DigitValue(text[2])]
       ELSE [nan |-> FALSE, value |-> DigitValue(text[1])]

Abs(x) == IF x < 0 THEN -x ELSE x

\* fetchSnapshot for loadSnapshotByHeight: ORDER BY ABS(bitcoin_block_height - ?)
\* ASC LIMIT 1; the results it can give (rows at equal distance are in no order)
LoadSnapshotByHeight(h, targetHeight) ==
  IF ~h.file THEN {[status |-> "throw"]}
  ELSE IF ~h.table THEN {[status |-> "null"]}
  ELSE IF h.rows = <<>> THEN {[status |-> "null"]}
  ELSE {[status |-> "record", rec |-> ParseSnapshotRow(h.rows[j])] :
          j \in {i \in 1..Len(h.rows) :
                   \A k \in 1..Len(h.rows) :
                     Abs(h.rows[i].bitcoin_block_height - targetHeight)
                       <= Abs(h.rows[k].bitcoin_block_height - targetHeight)}}

\* the loads withSnapshot can observe for a request
SnapshotLoads(h, heightStr) ==
  IF heightStr.present /\ heightStr.text # <<>>
  THEN IF ~ParseInt(heightStr.text).nan
       THEN LoadSnapshotByHeight(h, ParseInt(heightStr.text).value)
       ELSE {[status |-> "null"]}
  ELSE {LoadLatestSnapshot(h)}

\* withDataDir + withSnapshot: the response to a load
SnapshotResponse(configured, load) ==
  IF ~configured
  THEN [thrown |-> FALSE, status |-> 500, error |-> "STACKS_DATA_DIR is not configured"]
  ELSE IF load.status = "throw"
  THEN [thrown |-> TRUE, error |-> "unable to open database file"]
  ELSE IF load.status = "null"
  THEN [thrown |-> FALSE, status |-> 503, error |-> "No miner snapshot available"]
  ELSE [thrown |-> FALSE, status |-> 200, snapshot |-> load.rec]

\* a record as generateSnapshot assembles it
StoreRecord(t, height) ==
  LET minerViz == ComputeMinerVizSnapshot(Max(0, height - MINER_VIZ_WINDOW), height, t,
                                          SortitionIdAt(height), 0)
  IN [generatedAt |-> t,
      bitcoinBlockHeight |-> height,
      sortitionId |-> minerViz.sortitionId,
      minerPower |-> PowerHeader(height, minerViz.sortitionId, t, t, 0),
      minerViz |-> minerViz]

\* insertSnapshot(dataDir, record) with a generatedAt of now or of 48 hours ago
StoreInsert ==
  /\ Len(cache.rows) < MaxStoreRows
  /\ \E age \in {0, 2 * maxAgeUnits}, height \in 1..MaxStoreHeight :
       /\ cache' = InsertSnapshot(cache, StoreRecord(clock - age, height))
       /\ op' = [kind |-> "insert", before |-> cache.rows, arg |-> age]
  /\ UNCHANGED clock
  /\ UNCHANGED <<svars, gvars, pvars>>
  /\ UNCHANGED storeRest

\* pruneSnapshots(dataDir, maxAgeMs) with a retention window of 24 or 48 hours
StorePrune ==
  /\ \E maxAge \in {maxAgeUnits, 2 * maxAgeUnits} :
       /\ cache' = PruneSnapshotsOlderThan(cache, clock, maxAge)
       /\ op' = [kind |-> "prune", before |-> cache.rows, arg |-> maxAge]
  /\ UNCHANGED clock
  /\ UNCHANGED <<svars, gvars, pvars>>
  /\ UNCHANGED storeRest

\* withSnapshot(req, handler)
StoreRequest ==
  /\ \E configured \in BOOLEAN, heightStr \in HeightStrs :
       \E load \in SnapshotLoads(cache, heightStr) :
         op' = [kind |-> "request", before |-> cache.rows, arg |-> heightStr,
                configured |-> configured,
                response |-> SnapshotResponse(configured, load)]
  /\ UNCHANGED <<cache, clock>>
  /\ UNCHANGED <<svars, gvars, pvars>>
  /\ UNCHANGED storeRest

StoreClock ==
  /\ clock < MaxClock
  /\ clock' = clock + 1
  /\ op' = NoOp
  /\ UNCHANGED cache
  /\ UNCHANGED <<svars, gvars, pvars>>
  /\ UNCHANGED storeRest

InitStore ==
  /\ SchedulerOff
  /\ GraphOff
  /\ PowerOff
  /\ MapsOff
  /\ WorkerOff
  /\ TextOff
  /\ WinnersOff
  /\ SpendOff
  /\ ConnOff
  /\ cache \in HubStates
  /\ clock = 0
  /\ op = NoOp

NextStore ==
  \/ StoreInsert
  \/ StorePrune
  \/ StoreRequest
  \/ StoreClock

SpecStore == InitStore /\ [][NextStore]_vars

\* C14: a prune pass with retention window W leaves exactly the records that
\* are not older than now - W, in their order; a record at the cutoff stays.
C14_Retention ==
  op.kind = "prune" =>
    /\ cache.file /\ cache.table
    /\ cache.rows = SelectSeq(op.before, LAMBDA r : r.generated_at >= clock - op.arg)

\* a prune with the 24 hour window over one record 48 hours old and one just
\* written left exactly the recent one
C14_Witness ==
  /\ op.kind = "prune"
  /\ op.arg = maxAgeUnits
  /\ Len(op.before) = 2
  /\ op.before[1].generated_at = clock - 2
  /\ op.before[2].generated_at = clock
  /\ cache.rows = <<op.before[2]>>

\* C16: a read request made with the data directory configured gets a record
\* of the store whenever the store holds one, and gets the 'not ready'
\* response (503) only when the store holds none.
C16_BinaryReadOutcome ==
  (op.kind = "request" /\ op.configured) =>
    /\ cache.rows # <<>> =>
         /\ ~op.response.thrown
         /\ op.response.status = 200
         /\ \E j \in 1..Len(cache.rows) : op.response.snapshot = ParseSnapshotRow(cache.rows[j])
    /\ (~op.response.thrown /\ op.response.status = 503) => cache.rows = <<>>

\* a request for a height that is no number, answered 'not ready' while the
\* store holds a record
C16_Witness ==
  /\ op.kind = "request" /\ op.configured
  /\ op.arg.present /\ op.arg.text # <<>> /\ ParseInt(op.arg.text).nan
  /\ cache.rows # <<>>
  /\ ~op.response.thrown /\ op.response.status = 503

(***************************************************************************)
(* The run over a sortition store without commitments (Spec).              *)
(***************************************************************************)
\* C15: a run whose attempt finds no commitment in the sortition store ends
\* 'not yet ready': it writes no record, the attempt raises no error and no
\* retry follows it; and an attempt over a store without commitments ends in
\* no other way, unless the store could not be opened.
C15_NotYetReady ==
  /\ fin.outcome = "notready" =>
       /\ sortMax = 0
       /\ fin.app = 0 /\ fin.rows1 = fin.rows0 /\ hub = hubMid /\ hub.rows = fin.rows0
       /\ fin.outs[fin.attempts] = "notready"
       /\ \A j \in 1..(fin.attempts - 1) : fin.outs[j] = "throw"
       /\ Len(fin.delays) = fin.attempts - 1
       /\ ~isRunning /\ runs = <<>>
  /\ (sortMax = 0 /\ fin.outcome \notin {"none", "skipped"}) =>
       /\ fin.outcome \in {"notready", "failed"}
       /\ fin.app = 0 /\ hub.rows = fin.rows0
       /\ fin.outcome = "failed" => \A j \in 1..fin.attempts : fin.outs[j] = "throw"

\* a tick over an empty sortition store ended 'not yet ready' at its first attempt
C15_Witness ==
  /\ fin.outcome = "notready" /\ fin.attempts = 1 /\ fin.delays = <<>>
  /\ started /\ sortMax = 0 /\ dataDir

(***************************************************************************)
(* Process startup (SpecWorker): index.tsx calls maybeStartSnapshotWorker, *)
(* the spawned worker runs snapshot-worker.ts, which initializes the       *)
(* scheduler inside the worker.                                             *)
(***************************************************************************)
MaxEnvLen == 2
MaxLog == 6
MaxOpens == 2

EnvChars == {" ", "d"}

EnvValues ==
  {EnvUnset} \cup
  {[set |-> TRUE, value |-> v] : v \in UNION {[1..n -> EnvChars] : n \in 0..MaxEnvLen}}

\* the white space String.prototype.trim removes
IsWhiteSpace(c) == c \in {" ", "\t", "\n", "\r"}

RECURSIVE TrimStart(_)
TrimStart(s) ==
  IF s # <<>> /\ IsWhiteSpace(Head(s)) THEN TrimStart(Tail(s)) ELSE s

RECURSIVE TrimEnd(_)
TrimEnd(s) ==
  IF s # <<>> /\ IsWhiteSpace(s[Len(s)]) THEN TrimEnd(SubSeq(s, 1, Len(s) - 1)) ELSE s

\* String.prototype.trim
Trim(s) == TrimEnd(TrimStart(s))

\* getStacksDataDir(): the trimmed text, or null (here <<>>, which is never
\* the text of a directory)
GetStacksDataDir(e) ==
  IF ~e.set THEN <<>>
  ELSE LET dir == Trim(e.value)
       IN IF Len(dir) > 0 THEN dir ELSE <<>>

\* if (!dataDir)
MissingDataDirNever(dir) == FALSE
MissingDataDir(dir) == dir = <<>>

Line(level, text) == [level |-> level, text |-> text]

Logged(lines) == consoleLog' = consoleLog \o lines

\* runSnapshotGeneration() as far as its first attempt opens the sortition
\* store; busy: isRunning was set
RunOpens(busy) ==
  IF busy THEN 0
  ELSE IF MissingDataDir(GetStacksDataDir(processEnv)) THEN 0
  ELSE 1

RunLines(busy) ==
  IF busy
  THEN <<Line("warn", "[snapshots] Previous run still in progress; skipping this tick")>>
  ELSE IF MissingDataDir(GetStacksDataDir(processEnv))
  THEN <<Line("warn", "[snapshots] STACKS_DATA_DIR is not set; unable to generate snapshots")>>
  ELSE <<>>

\* if (snapshotWorker)
WorkerExistsNever(worker) == FALSE
WorkerExists(worker) == worker

\* if (snapshotCron)
CronExistsNever(cron) == FALSE
CronExists(cron) == cron

\* maybeStartSnapshotWorker()
MaybeStartSnapshotWorker ==
  /\ Len(consoleLog) + 2 <= MaxLog
  /\ IF WorkerExists(snapshotWorker)
     THEN /\ Logged(<<Line("log", "[startup] Miner snapshot worker already running")>>)
          /\ UNCHANGED <<snapshotWorker, workerBooted, workersCreated>>
     ELSE LET dir == GetStacksDataDir(processEnv)
              first == Line("log", IF dir # <<>> THEN "[startup] STACKS_DATA_DIR -> dataDir"
                                   ELSE "[startup] STACKS_DATA_DIR not configured")
          IN IF MissingDataDir(dir)
             THEN /\ Logged(<<first,
                     Line("warn", "[startup] Miner snapshot worker not started (missing STACKS_DATA_DIR)")>>)
                  /\ UNCHANGED <<snapshotWorker, workerBooted, workersCreated>>
             ELSE \E spawned \in BOOLEAN :
                    IF spawned
                    THEN /\ snapshotWorker' = TRUE
                         /\ workerBooted' = FALSE
                         /\ workersCreated' = workersCreated + 1
                         /\ Logged(<<first>>)
                    ELSE /\ snapshotWorker' = FALSE
                         /\ UNCHANGED <<workerBooted, workersCreated>>
                         /\ Logged(<<first,
                              Line("error", "[startup] Failed to spawn miner snapshot worker")>>)
  /\ UNCHANGED <<processEnv, workerCron, startupRuns, storesOpened, timersCreated>>
  /\ UNCHANGED <<svars, gvars, pvars>>
  /\ UNCHANGED workerRest

\* initializeSnapshotScheduler() inside the worker, after the lines `before`
\* were logged
InitializeSchedulerInWorker(before) ==
  IF MissingDataDir(GetStacksDataDir(processEnv))
  THEN /\ Logged(before \o
            <<Line("warn", "[startup] STACKS_DATA_DIR is not set; miner snapshots disabled")>>)
       /\ UNCHANGED <<workerCron, startupRuns, storesOpened, timersCreated>>
  ELSE IF CronExists(workerCron)
  THEN /\ Logged(before \o
            <<Line("log", "[startup] Miner snapshot scheduler already initialized")>>)
       /\ UNCHANGED <<workerCron, startupRuns, storesOpened, timersCreated>>
  ELSE /\ Logged(before \o
            <<Line("log", "[startup] Initializing miner snapshot scheduler")>> \o RunLines(FALSE))
       /\ startupRuns' = startupRuns + 1
       /\ storesOpened' = storesOpened + RunOpens(FALSE)
       /\ workerCron' = TRUE
       /\ timersCreated' = timersCreated + 1

\* snapshot-worker.ts: the script of the spawned worker, with the call of
\* initializeSnapshotScheduler() it ends with
SnapshotWorkerScript ==
  /\ snapshotWorker /\ ~workerBooted
  /\ Len(consoleLog) + 3 <= MaxLog
  /\ workerBooted' = TRUE
  /\ LET dir == GetStacksDataDir(processEnv)
     IN InitializeSchedulerInWorker(
          <<Line("log", IF dir # <<>> THEN "[worker] Miner snapshot worker starting with STACKS_DATA_DIR"
                        ELSE "[worker] Miner snapshot worker starting (no STACKS_DATA_DIR configured)")>>)
  /\ UNCHANGED <<processEnv, snapshotWorker, workersCreated>>
  /\ UNCHANGED <<svars, gvars, pvars>>
  /\ UNCHANGED workerRest

\* one more call of initializeSnapshotScheduler() in the worker
InitializeSnapshotSchedulerAgain ==
  /\ workerBooted
  /\ Len(consoleLog) + 2 <= MaxLog
  /\ InitializeSchedulerInWorker(<<>>)
  /\ UNCHANGED <<processEnv, snapshotWorker, workerBooted, workersCreated>>
  /\ UNCHANGED <<svars, gvars, pvars>>
  /\ UNCHANGED workerRest

\* the Cron callback inside the worker
WorkerCronTick ==
  /\ workerCron
  /\ storesOpened < MaxOpens
  /\ Len(consoleLog) + 1 <= MaxLog
  /\ \E busy \in BOOLEAN :
       /\ Logged(RunLines(busy))
       /\ storesOpened' = storesOpened + RunOpens(busy)
  /\ UNCHANGED <<processEnv, snapshotWorker, workerBooted, workerCron, startupRuns,
                 workersCreated, timersCreated>>
  /\ UNCHANGED <<svars, gvars, pvars>>
  /\ UNCHANGED workerRest

InitWorker ==
  /\ SchedulerOff
  /\ GraphOff
  /\ PowerOff
  /\ MapsOff
  /\ StoreOff
  /\ TextOff
  /\ WinnersOff
  /\ SpendOff
  /\ ConnOff
  /\ processEnv \in EnvValues
  /\ snapshotWorker = FALSE
  /\ workerBooted = FALSE
  /\ workerCron = FALSE
  /\ startupRuns = 0
  /\ storesOpened = 0
  /\ workersCreated = 0
  /\ timersCreated = 0
  /\ consoleLog = <<>>

NextWorker ==
  \/ MaybeStartSnapshotWorker
  \/ SnapshotWorkerScript
  \/ InitializeSnapshotSchedulerAgain
  \/ WorkerCronTick

SpecWorker == InitWorker /\ [][NextWorker]_vars

\* STACKS_DATA_DIR is unset, empty or blank
NotConfigured ==
  ~processEnv.set \/ \A i \in 1..Len(processEnv.value) : processEnv.value[i] = " "

\* C17: when the root directory of the external stores is not configured, no
\* worker is spawned, no timer is created, no startup run is made, no store is
\* opened, and the startup logs a warning.
C17_UnconfiguredEngineOff ==
  NotConfigured =>
    /\ ~snapshotWorker /\ ~workerBooted
    /\ ~workerCron
    /\ startupRuns = 0
    /\ storesOpened = 0
    /\ consoleLog # <<>> =>
         \E i \in 1..Len(consoleLog) : consoleLog[i].level = "warn"

\* the process started with a blank STACKS_DATA_DIR and logged its warning
C17_Witness ==
  /\ processEnv.set /\ processEnv.value # <<>> /\ NotConfigured
  /\ \E i \in 1..Len(consoleLog) :
       consoleLog[i] = Line("warn", "[startup] Miner snapshot worker not started (missing STACKS_DATA_DIR)")
  /\ ~snapshotWorker

\* C30: after any sequence of calls of maybeStartSnapshotWorker and
\* initializeSnapshotScheduler at most one snapshot worker and at most one
\* timer were ever created and at most one startup run was made; a call
\* made while the worker (the timer) exists creates nothing
C30_SingleWriter ==
  /\ [](workersCreated <= 1 /\ timersCreated <= 1 /\ startupRuns <= 1)
  /\ [](snapshotWorker <=> workersCreated = 1)
  /\ [](workerCron <=> timersCreated = 1)
  /\ [][(snapshotWorker /\ MaybeStartSnapshotWorker) =>
          UNCHANGED <<snapshotWorker, workersCreated, timersCreated, startupRuns>>]_vars
  /\ [][(workerCron /\ InitializeSnapshotSchedulerAgain) =>
          UNCHANGED <<workerCron, workersCreated, timersCreated, startupRuns, storesOpened>>]_vars

\* both functions were called again after the worker and its timer existed
C30_Witness ==
  /\ workersCreated = 1 /\ timersCreated = 1 /\ startupRuns = 1
  /\ \E i \in 1..Len(consoleLog) :
       consoleLog[i] = Line("log", "[startup] Miner snapshot worker already running")
  /\ \E i \in 1..Len(consoleLog) :
       consoleLog[i] = Line("log", "[startup] Miner snapshot scheduler already initialized")

(***************************************************************************)
(* The text helpers (SpecText): escapeSqliteString, parseCostVector and    *)
(* applyD2ClassDefinitions, each called once on an input.  Texts are       *)
(* sequences of characters; a JSON text is a sequence of its tokens.       *)
(***************************************************************************)
MaxPathLen == 4
MaxPairs == 2
MaxPieces == 3

Quote == "'"

PathChars == {Quote, "a", "/"}

PathTexts == UNION {[1..n -> PathChars] : n \in 0..MaxPathLen}

\* String.prototype.replace with a text pattern: the first occurrence only
RECURSIVE ReplaceFirstChar(_, _, _)
ReplaceFirstChar(s, c, by) ==
  IF s = <<>> THEN <<>>
  ELSE IF Head(s) = c THEN by \o Tail(s)
  ELSE <<Head(s)>> \o ReplaceFirstChar(Tail(s), c, by)

\* String.prototype.replaceAll with a pattern of one character
RECURSIVE ReplaceAllChar(_, _, _)
ReplaceAllChar(s, c, by) ==
  IF s = <<>> THEN <<>>
  ELSE (IF Head(s) = c THEN by ELSE <<Head(s)>>) \o ReplaceAllChar(Tail(s), c, by)

\* return input.replaceAll("'", "''")
EscapeSqliteStringFirstOnly(input) == ReplaceFirstChar(input, Quote, <<Quote, Quote>>)
EscapeSqliteString(input) == ReplaceAllChar(input, Quote, <<Quote, Quote>>)

CallEscapeSqliteString ==
  /\ fnCall = NoCall
  /\ \E input \in PathTexts :
       fnCall' = [fn |-> "escapeSqliteString", input |-> input,
                  output |-> EscapeSqliteString(input)]
  /\ UNCHANGED <<svars, gvars, pvars>>
  /\ UNCHANGED textRest

\* ---- parseCostVector (blocks-service.ts) ----
\* JSON tokens
Punct(c) == [kind |-> c, text |-> <<>>, num |-> 0]
StrTok(t) == [kind |-> "string", text |-> t, num |-> 0]
NumTok(n) == [kind |-> "number", text |-> <<>>, num |-> n]
NullTok == [kind |-> "null", text |-> <<>>, num |-> 0]

\* JavaScript values: undefined, null, numbers, strings, objects (a sequence
\* of key/value pairs in insertion order)
Undefined == [type |-> "undefined"]
JsNull == [type |-> "null"]
JsNumber(n) == [type |-> "number", num |-> n]
JsString(t) == [type |-> "string", text |-> t]
JsObject(pairs) == [type |-> "object", pairs |-> pairs]

NaN == [nan |-> TRUE, value |-> 0]
Finite(n) == [nan |-> FALSE, value |-> n]

\* the keys and values of the cost payloads followed
PayloadKeys == <<<<"r", "e", "a", "d", "C", "o", "u", "n", "t">>, <<"r", "e", "a", "d", "_", "c", "o", "u", "n", "t">>, <<"r", "u", "n", "t", "i", "m", "e">>>>
PayloadValues == {JsNumber(7), JsString(<<"5">>), JsString(<<"x">>), JsNull}

\* the objects with at most MaxPairs of the keys, in the order of PayloadKeys
PayloadObjects ==
  {JsObject(pairs) : pairs \in
     {ps \in UNION {[1..n -> [key : {PayloadKeys[k] : k \in 1..Len(PayloadKeys)},
                              value : PayloadValues]] : n \in 0..MaxPairs} :
        \A i, j \in 1..Len(ps) :
          i < j => \E a, b \in 1..Len(PayloadKeys) :
                     a < b /\ ps[i].key = PayloadKeys[a] /\ ps[j].key = PayloadKeys[b]}}

ScalarToken(v) ==
  IF v.type = "number" THEN NumTok(v.num)
  ELSE IF v.type = "string" THEN StrTok(v.text)
  ELSE NullTok

RECURSIVE StringifyPairs(_)
StringifyPairs(pairs) ==
  IF pairs = <<>> THEN <<>>
  ELSE <<StrTok(pairs[1].key), Punct(":"), ScalarToken(pairs[1].value)>>
       \o (IF Len(pairs) > 1 THEN <<Punct(",")>> ELSE <<>>)
       \o StringifyPairs(Tail(pairs))

\* JSON.stringify of a scalar or of an object of scalars
JsonStringifyValue(v) ==
  IF v.type = "object" THEN <<Punct("{")>> \o StringifyPairs(v.pairs) \o <<Punct("}")>>
  ELSE <<ScalarToken(v)>>

IsScalarToken(t) == t.kind \in {"number", "string", "null"}

TokenValue(t) ==
  IF t.kind = "number" THEN JsNumber(t.num)
  ELSE IF t.kind = "string" THEN JsString(t.text)
  ELSE JsNull

SyntaxError == [ok |-> FALSE, value |-> Undefined]

\* the members of an object from token i on, pairs the members read so far
RECURSIVE ParseMembers(_, _, _)
ParseMembers(toks, i, pairs) ==
  IF i + 3 > Len(toks) THEN SyntaxError
  ELSE IF ~(toks[i].kind = "string" /\ toks[i + 1].kind = ":" /\ IsScalarToken(toks[i + 2]))
  THEN SyntaxError
  ELSE LET more == Append(pairs, [key |-> toks[i].text, value |-> TokenValue(toks[i + 2])])
       IN IF toks[i + 3].kind = "}"
          THEN IF i + 3 = Len(toks) THEN [ok |-> TRUE, value |-> JsObject(more)]
               ELSE SyntaxError
          ELSE IF toks[i + 3].kind = ","
          THEN ParseMembers(toks, i + 4, more)
          ELSE SyntaxError

\* JSON.parse of a text of scalars and objects of scalars
JsonParseText(toks) ==
  IF toks = <<>> THEN SyntaxError
  ELSE IF Len(toks) = 1
  THEN IF IsScalarToken(toks[1]) THEN [ok |-> TRUE, value |-> TokenValue(toks[1])]
       ELSE SyntaxError
  ELSE IF toks[1].kind # "{" THEN SyntaxError
  ELSE IF Len(toks) = 2
  THEN IF toks[2].kind = "}" THEN [ok |-> TRUE, value |-> JsObject(<<>>)] ELSE SyntaxError
  ELSE ParseMembers(toks, 2, <<>>)

\* parsed.key: the value of the last pair with the key; undefined without one
\* and for a number or a string
RECURSIVE GetProperty(_, _)
GetProperty(v, key) ==
  IF v.type # "object" \/ v.pairs = <<>> THEN Undefined
  ELSE LET last == v.pairs[Len(v.pairs)]
       IN IF last.key = key THEN last.value
          ELSE GetProperty(JsObject(SubSeq(v.pairs, 1, Len(v.pairs) - 1)), key)

\* a ?? b
Coalesce(a, b) == IF a.type \in {"undefined", "null"} THEN b ELSE a

RECURSIVE DigitsValue(_)
DigitsValue(t) ==
  IF t = <<>> THEN 0 ELSE 10 * DigitsValue(SubSeq(t, 1, Len(t) - 1)) + DigitValue(t[Len(t)])

\* Number(v)
ToNumber(v) ==
  IF v.type = "number" THEN Finite(v.num)
  ELSE IF v.type = "null" THEN Finite(0)
  ELSE IF v.type = "string"
  THEN LET t == Trim(v.text)
       IN IF \A i \in 1..Len(t) : IsDigit(t[i]) THEN Finite(DigitsValue(t)) ELSE NaN
  ELSE NaN

ZeroCostVector ==
  [readLength |-> Finite(0), readCount |-> Finite(0), writeLength |-> Finite(0),
   writeCount |-> Finite(0), runtime |-> Finite(0)]

\* the body of the try block: JSON.parse raises a SyntaxError, and reading a
\* property of null raises a TypeError
TryParseCostVector(raw) ==
  LET parsed == JsonParseText(raw) IN
  IF ~parsed.ok \/ parsed.value.type = "null" THEN [threw |-> TRUE, value |-> ZeroCostVector]
  ELSE LET Read(camel, snake) ==
             ToNumber(Coalesce(GetProperty(parsed.value, camel),
                               Coalesce(GetProperty(parsed.value, snake), JsNumber(0))))
       IN [threw |-> FALSE,
           value |-> [readLength |-> Read(<<"r", "e", "a", "d", "L", "e", "n", "g", "t", "h">>, <<"r", "e", "a", "d", "_", "l", "e", "n", "g", "t", "h">>),
                      readCount |-> Read(<<"r", "e", "a", "d", "C", "o", "u", "n", "t">>, <<"r", "e", "a", "d", "_", "c", "o", "u", "n", "t">>),
                      writeLength |-> Read(<<"w", "r", "i", "t", "e", "L", "e", "n", "g", "t", "h">>, <<"w", "r", "i", "t", "e", "_", "l", "e", "n", "g", "t", "h">>),
                      writeCount |-> Read(<<"w", "r", "i", "t", "e", "C", "o", "u", "n", "t">>, <<"w", "r", "i", "t", "e", "_", "c", "o", "u", "n", "t">>),
                      runtime |-> ToNumber(Coalesce(GetProperty(parsed.value, <<"r", "u", "n", "t", "i", "m", "e">>),
                                                    JsNumber(0)))]]

\* catch (error) { warn; return zeros }
CatchNothing(attempt) == [raised |-> attempt.threw, value |-> attempt.value]
CatchAll(attempt) ==
  IF attempt.threw THEN [raised |-> FALSE, value |-> ZeroCostVector]
  ELSE [raised |-> FALSE, value |-> attempt.value]

\* parseCostVector(raw); raw is null, or a text
ParseCostVector(raw) ==
  IF raw.null \/ raw.text = <<>> THEN [raised |-> FALSE, value |-> ZeroCostVector]
  ELSE CatchAll(TryParseCostVector(raw.text))

\* the payloads followed: null, the empty text, the JSON text of a scalar or
\* of an object, and a text cut short
Payloads ==
  {[form |-> "null", null |-> TRUE, text |-> <<>>],
   [form |-> "empty", null |-> FALSE, text |-> <<>>]}
  \cup {[form |-> "json", null |-> FALSE, text |-> JsonStringifyValue(v)] :
          v \in PayloadObjects \cup PayloadValues}
  \cup UNION {{[form |-> "cut", null |-> FALSE, text |-> SubSeq(JsonStringifyValue(v), 1, n)] :
                 n \in 1..(Len(JsonStringifyValue(v)) - 1)} : v \in PayloadObjects}

CallParseCostVector ==
  /\ fnCall = NoCall
  /\ \E raw \in Payloads :
       fnCall' = [fn |-> "parseCostVector", input |-> raw, output |-> ParseCostVector(raw)]
  /\ UNCHANGED <<svars, gvars, pvars>>
  /\ UNCHANGED textRest

\* ---- applyD2ClassDefinitions (miner-viz.ts) ----
\* D2_CLASS_DEFINITIONS, its class entries left out
D2_CLASS_DEFINITIONS == <<"c", "l", "a", "s", "s", "e", "s", ":", " ", "{", "\n", "}", "\n">>

ClassesWord == <<"c", "l", "a", "s", "s", "e", "s">>
DirectionKey == <<"d", "i", "r", "e", "c", "t", "i", "o", "n", ":">>

\* the pieces the sources followed are made of
SourcePieces ==
  {<<"d", "i", "r", "e", "c", "t", "i", "o", "n", ":", " ", "d", "o", "w", "n">>,
   <<"\n">>,
   <<"\r", "\n">>,
   <<" ">>,
   <<"c", "l", "a", "s", "s", "e", "s", ":", " ", "{", "}">>,
   <<"n", ":", " ", "s", "u", "b", "c", "l", "a", "s", "s", "e", "s">>,
   <<"a", ":", " ", "{", "}">>}

RECURSIVE Flatten(_)
Flatten(ps) == IF ps = <<>> THEN <<>> ELSE Head(ps) \o Flatten(Tail(ps))

Sources == {Flatten(ps) : ps \in UNION {[1..n -> SourcePieces] : n \in 0..MaxPieces}}

StartsWith(s, pat) == Len(s) >= Len(pat) /\ SubSeq(s, 1, Len(pat)) = pat

\* String.prototype.includes
Includes(s, pat) ==
  \E i \in 1..(Len(s) - Len(pat) + 1) : SubSeq(s, i, i + Len(pat) - 1) = pat

\* source.replace(/\r\n/g, "\n")
RECURSIVE NormalizeNewlines(_)
NormalizeNewlines(s) ==
  IF s = <<>> THEN <<>>
  ELSE IF StartsWith(s, <<"\r", "\n">>) THEN <<"\n">> \o NormalizeNewlines(SubSeq(s, 3, Len(s)))
  ELSE <<Head(s)>> \o NormalizeNewlines(Tail(s))

\* const [firstLine = "", ...rest] = normalized.split("\n")
RECURSIVE FirstLine(_)
FirstLine(s) ==
  IF s = <<>> \/ Head(s) = "\n" THEN <<>> ELSE <<Head(s)>> \o FirstLine(Tail(s))

\* rest.join("\n")
RestJoined(s) ==
  IF Len(FirstLine(s)) = Len(s) THEN <<>> ELSE SubSeq(s, Len(FirstLine(s)) + 2, Len(s))

\* if (source.includes("classes")) return source
HasClasses(source) == Includes(source, ClassesWord)

ApplyD2ClassDefinitions(source) ==
  IF HasClasses(source) THEN source
  ELSE LET normalized == NormalizeNewlines(source)
           firstLine == FirstLine(normalized)
           classBlock == Trim(D2_CLASS_DEFINITIONS)
       IN IF StartsWith(firstLine, DirectionKey)
          THEN firstLine \o <<"\n", "\n">> \o classBlock \o <<"\n", "\n">>
               \o TrimStart(RestJoined(normalized))
          ELSE classBlock \o <<"\n", "\n">> \o TrimStart(normalized)

CallApplyD2ClassDefinitions ==
  /\ fnCall = NoCall
  /\ \E source \in Sources :
       fnCall' = [fn |-> "applyD2ClassDefinitions", input |-> source,
                  output |-> ApplyD2ClassDefinitions(source)]
  /\ UNCHANGED <<svars, gvars, pvars>>
  /\ UNCHANGED textRest

InitText ==
  /\ SchedulerOff
  /\ GraphOff
  /\ PowerOff
  /\ MapsOff
  /\ StoreOff
  /\ WorkerOff
  /\ WinnersOff
  /\ SpendOff
  /\ ConnOff
  /\ fnCall = NoCall

NextText ==
  \/ CallEscapeSqliteString
  \/ CallParseCostVector
  \/ CallApplyD2ClassDefinitions

SpecText == InitText /\ [][NextText]_vars

\* the number of single quotes among the first n characters of s
QuotesIn(s, n) == Cardinality({j \in 1..n : s[j] = Quote})

\* C18: escapeSqliteString puts two quotes where the input has one, keeps
\* every other character in its place, and returns an input without quotes
\* as it is.
C18_DoublesEveryQuote ==
  fnCall.fn = "escapeSqliteString" =>
    LET in == fnCall.input
        out == fnCall.output
    IN /\ Len(out) = Len(in) + QuotesIn(in, Len(in))
       /\ \A i \in 1..Len(in) :
            /\ out[i + QuotesIn(in, i - 1)] = in[i]
            /\ in[i] = Quote => out[i + QuotesIn(in, i - 1) + 1] = Quote
       /\ QuotesIn(in, Len(in)) = 0 => out = in

\* a path with two quotes was escaped
C18_Witness ==
  /\ fnCall.fn = "escapeSqliteString"
  /\ fnCall.input = <<"a", Quote, "/", Quote>>
  /\ fnCall.output = <<"a", Quote, Quote, "/", Quote, Quote>>

\* C19: parseCostVector raises for no payload, and gives the all-zero vector
\* for a null payload, an empty one and one that is no JSON text.
C19_NeverRaises ==
  fnCall.fn = "parseCostVector" =>
    /\ ~fnCall.output.raised
    /\ fnCall.input.form \in {"null", "empty", "cut"} => fnCall.output.value = ZeroCostVector

\* a JSON text cut short after its first member was parsed to the zero vector
C19_Witness ==
  /\ fnCall.fn = "parseCostVector"
  /\ fnCall.input.form = "cut" /\ Len(fnCall.input.text) = 4
  /\ ~fnCall.output.raised /\ fnCall.output.value = ZeroCostVector

\* the source has a classes block: the key classes at the start of a line
HasClassesBlock(s) ==
  \E i \in 1..Len(s) :
    /\ StartsWith(SubSeq(s, i, Len(s)), ClassesWord \o <<":">>)
    /\ i = 1 \/ IsWhiteSpace(s[i - 1])

\* C20: applyD2ClassDefinitions returns a source with a classes block as it
\* is; into any other source it inserts the class definitions, a leading
\* direction line staying the first line; applying it twice gives what
\* applying it once gives.
C20_InsertsUnlessBlockPresent ==
  fnCall.fn = "applyD2ClassDefinitions" =>
    LET in == fnCall.input
        out == fnCall.output
    IN /\ HasClassesBlock(in) => out = in
       /\ ~HasClassesBlock(in) =>
            /\ Includes(out, Trim(D2_CLASS_DEFINITIONS))
            /\ StartsWith(in, DirectionKey) => FirstLine(out) = FirstLine(NormalizeNewlines(in))
       /\ ApplyD2ClassDefinitions(out) = out

\* a source that has the word classes in a value and no classes block came
\* back without the class definitions
C20_Witness ==
  /\ fnCall.fn = "applyD2ClassDefinitions"
  /\ StartsWith(fnCall.input, DirectionKey)
  /\ ~HasClassesBlock(fnCall.input)
  /\ fnCall.output = fnCall.input

(***************************************************************************)
(* processWinningBlocks and processWinningCommit (miner-viz.ts), on the    *)
(* graph fetchCommitData built (SpecWinners).                              *)
(***************************************************************************)
\* a query that found no row
NoRow == [present |-> FALSE]

\* the parent position of the tables followed here: the first commitment of
\* the burn block before, and the genesis pointer in the first burn block
NearParentPtrs(h) == IF h > 1 THEN {<<h - 1, 0>>} ELSE {<<0, 0>>}

WinnerTables(maxCommits) ==
  {T \in BlockCommitTables(maxCommits) :
     \A r \in T : <<r.parent_block_ptr, r.parent_vtxindex>> \in NearParentPtrs(r.block_height)}

\* the heights of the window that have a commitment
CommitHeights(table, lower, start) ==
  {r.block_height : r \in {x \in table : InWindow(x.block_height, lower, start)}}

\* canonical_stacks_tip_height of a snapshots row: no stacks block yet, or one
TipHeights == {0, 5}

\* the snapshots row of a burn block: none, or a row whose winner is the
\* all-zero txid or a commitment of the block
SnapshotRows(table, h) ==
  {NoRow} \cup
  {[present |-> TRUE, winning_block_txid |-> w, canonical_stacks_tip_height |-> t,
    consensus_hash |-> h] :
     w \in {ZeroTxid} \cup {r.txid : r \in {x \in table : x.block_height = h}},
     t \in TipHeights}

\* the payments row of a tenure
PaymentRows == {NoRow, [present |-> TRUE, block_hash |-> "block_hash", coinbase |-> 1000]}

\* the last header of a burn block: none, one without fees, one with fees
FeesRows == {NoRow, [present |-> TRUE, tenure_tx_fees |-> Null],
             [present |-> TRUE, tenure_tx_fees |-> 30]}

\* a production round reads payments and fees only for a winner with a stacks
\* block
ReadsRewards(snapshot) ==
  /\ snapshot.present
  /\ snapshot.winning_block_txid # ZeroTxid
  /\ snapshot.canonical_stacks_tip_height > 0

\* if (payment) { blockHash = payment.block_hash ?? ...; coinbaseEarned = payment.coinbase ?? ... }
WithPayment(commit, payment) ==
  IF payment.present
  THEN [commit EXCEPT !.blockHash = payment.block_hash, !.coinbaseEarned = payment.coinbase]
  ELSE commit

\* if (feesRow?.tenure_tx_fees != null) commit.feesEarned = feesRow.tenure_tx_fees
WithFeesUnchecked(commit, feesRow) ==
  IF feesRow.present THEN [commit EXCEPT !.feesEarned = feesRow.tenure_tx_fees]
  ELSE [commit EXCEPT !.feesEarned = Null]
WithFees(commit, feesRow) ==
  IF feesRow.present /\ feesRow.tenure_tx_fees # Null
  THEN [commit EXCEPT !.feesEarned = feesRow.tenure_tx_fees]
  ELSE commit

\* processWinningCommit(commit, parentCommit, stacksHeight, consensusHash, ...)
ProcessWinningCommit(ac, txid, stacksHeight, consensusHash) ==
  LET marked == [ac[txid] EXCEPT !.won = TRUE, !.potentialTip = TRUE,
                                 !.stacksHeight = stacksHeight]
      parent == ac[txid].parent
      ac1 == [ac EXCEPT ![txid] = marked]
      ac2 == IF parent # NoTxid /\ parent \in DOMAIN ac1
             THEN [ac1 EXCEPT ![parent] = [@ EXCEPT !.potentialTip = FALSE]]
             ELSE ac1
  IN IF stacksHeight <= 0 THEN ac2
     ELSE [ac2 EXCEPT ![txid] =
             WithFees(WithPayment(@, paymentsTable[consensusHash]),
                      feesTable[ac2[txid].burnBlockHeight])]

\* if (commit.txid === snapshot.winning_block_txid)
IsWinnerAlways(commit, snapshot) == TRUE
IsWinner(commit, snapshot) == commit.txid = snapshot.winning_block_txid

\* the loop over the commitments of one height
RECURSIVE ProcessCommits(_, _, _)
ProcessCommits(ac, txids, snapshot) ==
  IF txids = {} THEN ac
  ELSE LET t == CHOOSE x \in txids : TRUE
           ac1 == [ac EXCEPT ![t] = [@ EXCEPT !.stacksHeight =
                                        snapshot.canonical_stacks_tip_height]]
           ac2 == IF IsWinner(ac1[t], snapshot)
                  THEN ProcessWinningCommit(ac1, t, snapshot.canonical_stacks_tip_height,
                                            snapshot.consensus_hash)
                  ELSE ac1
       IN ProcessCommits(ac2, txids \ {t}, snapshot)

\* for (let height = lowerBound; height <= startBlock; height += 1)
RECURSIVE WinningBlocksFrom(_, _)
WinningBlocksFrom(ac, height) ==
  IF height > startBlock THEN ac
  ELSE LET commits == {t \in DOMAIN ac : ac[t].burnBlockHeight = height}
       IN IF commits = {} THEN WinningBlocksFrom(ac, height + 1)
          ELSE IF ~snapshotsTable[height].present THEN WinningBlocksFrom(ac, height + 1)
          ELSE WinningBlocksFrom(ProcessCommits(ac, commits, snapshotsTable[height]),
                                 height + 1)

\* processWinningBlocks(sortitionDb, chainstateDb, lowerBound, startBlock, blockCommits)
ProcessWinningBlocks ==
  /\ winPc = "wait"
  /\ gPc = "tip"
  /\ allCommits' = WinningBlocksFrom(allCommits, lowerBound)
  /\ winPc' = "done"
  /\ UNCHANGED <<gPc, blockCommitsTable, lowerBound, startBlock, winningBlockTxid, tipTxid,
                 isHead, visited>>
  /\ UNCHANGED <<snapshotsTable, paymentsTable, feesTable>>
  /\ UNCHANGED <<svars, pvars>>
  /\ UNCHANGED winnersRest

InitWinners ==
  /\ SchedulerOff
  /\ PowerOff
  /\ MapsOff
  /\ StoreOff
  /\ WorkerOff
  /\ TextOff
  /\ SpendOff
  /\ ConnOff
  /\ gPc = "fetch"
  /\ blockCommitsTable \in WinnerTables(MaxCommits)
  /\ startBlock \in {r.block_height : r \in blockCommitsTable}
  /\ lowerBound = Max(0, startBlock - GraphWindow)
  /\ allCommits = <<>>
  /\ winningBlockTxid = NoTxid
  /\ tipTxid = NoTxid
  /\ isHead = FALSE
  /\ visited = <<>>
  /\ winPc = "wait"
  /\ LET heights == CommitHeights(blockCommitsTable, lowerBound, startBlock)
     IN /\ snapshotsTable \in {f \in [heights -> UNION {SnapshotRows(blockCommitsTable, h) : h \in heights}] :
                                 \A h \in heights : f[h] \in SnapshotRows(blockCommitsTable, h)}
        /\ paymentsTable \in {f \in [heights -> PaymentRows] :
                                \A h \in heights : ReadsRewards(snapshotsTable[h]) \/ f[h] = NoRow}
        /\ feesTable \in {f \in [heights -> FeesRows] :
                            \A h \in heights : ReadsRewards(snapshotsTable[h]) \/ f[h] = NoRow}

NextWinners ==
  \/ FetchCommitData
  \/ ProcessWinningBlocks

SpecWinners == InitWinners /\ [][NextWinners]_vars

\* the commitments of the graph at a height
CommitsAt(h) == {t \in DOMAIN allCommits : allCommits[t].burnBlockHeight = h}

\* C22: after processWinningBlocks, at a height without a production-winner
\* record no commitment is marked won and none has a stacksHeight; at a height
\* with one, every commitment has the record's stacksHeight and the
\* commitments marked won are exactly those with the winner's txid, at most
\* one per height.
C22_WinnersPerHeight ==
  winPc = "done" =>
    \A h \in DOMAIN snapshotsTable :
      LET won == {t \in CommitsAt(h) : allCommits[t].won} IN
        /\ CommitsAt(h) # {}
        /\ IF ~snapshotsTable[h].present
           THEN /\ won = {}
                /\ \A t \in CommitsAt(h) : allCommits[t].stacksHeight = 0
           ELSE /\ \A t \in CommitsAt(h) :
                     allCommits[t].stacksHeight = snapshotsTable[h].canonical_stacks_tip_height
                /\ won = {t \in CommitsAt(h) : t = snapshotsTable[h].winning_block_txid}
        /\ Cardinality(won) <= 1

\* a window with a skipped height and with a height of two commitments, one
\* of them the winner
C22_Witness ==
  /\ winPc = "done"
  /\ \E h \in DOMAIN snapshotsTable : ~snapshotsTable[h].present
  /\ \E h \in DOMAIN snapshotsTable :
       /\ snapshotsTable[h].present
       /\ Cardinality(CommitsAt(h)) = 2
       /\ \E t \in CommitsAt(h) : allCommits[t].won
       /\ \E t \in CommitsAt(h) : ~allCommits[t].won /\ allCommits[t].stacksHeight > 0

MaxSpendRows == 3

DoubleQuote == "\""

\* block heights on both sides of the lower bound of a window of
\* MINER_POWER_WINDOW blocks
SpendHeights == {1, MINER_POWER_WINDOW + 1, MINER_POWER_WINDOW + 2}

\* apparent_sender is stored as JSON text, with or without its quotes
SpendSenderTexts == {<<"a">>, <<DoubleQuote, "a", DoubleQuote>>, <<"b">>}

BurnFeeValues == {1, 2}

CommitRowSet ==
  [block_height : SpendHeights, apparent_sender : SpendSenderTexts, burn_fee : BurnFeeValues]

\* SQLite TRIM(X, Y): removes the characters of Y from both ends of X
RECURSIVE TrimChars(_, _)
TrimChars(text, ch) ==
  IF text = <<>> THEN text
  ELSE IF Head(text) = ch THEN TrimChars(Tail(text), ch)
  ELSE IF text[Len(text)] = ch THEN TrimChars(SubSeq(text, 1, Len(text) - 1), ch)
  ELSE text

\* SELECT MAX(block_height) AS maxHeight FROM block_commits
RECURSIVE MaxBlockHeight(_)
MaxBlockHeight(rows) ==
  IF rows = <<>> THEN Null
  ELSE LET rest == MaxBlockHeight(Tail(rows))
       IN IF rest = Null THEN Head(rows).block_height
          ELSE Max(Head(rows).block_height, rest)

\* getBlockRange: row?.maxHeight ?? 0
BlockRangeStart(rows) ==
  LET maxHeight == MaxBlockHeight(rows)
  IN IF maxHeight = Null THEN 0 ELSE maxHeight

\* SUM(total_burn_fee) of the rows of one sender above the lower bound and,
\* where upper is not Null, up to upper
RECURSIVE SumBurnFee(_, _, _, _)
SumBurnFee(rows, sender, lower, upper) ==
  IF rows = <<>> THEN 0
  ELSE LET row == Head(rows)
           counted == /\ row.block_height > lower
                      /\ upper # Null => row.block_height <= upper
                      /\ TrimChars(row.apparent_sender, DoubleQuote) = sender
       IN (IF counted THEN row.burn_fee ELSE 0) + SumBurnFee(Tail(rows), sender, lower, upper)

\* the senders of the rows above the lower bound and up to upper
SpendSenders(rows, lower, upper) ==
  {TrimChars(rows[i].apparent_sender, DoubleQuote) : i \in
     {j \in DOMAIN rows : /\ rows[j].block_height > lower
                          /\ upper # Null => rows[j].block_height <= upper}}

\* the grouped sums over (lower, upper]
BurnFeeBetween(rows, lower, upper) ==
  [sender \in SpendSenders(rows, lower, upper) |-> SumBurnFee(rows, sender, lower, upper)]

\* burnFeeStmt.all(lowerBound): WHERE block_height > ? GROUP BY sender
BurnFeeStmt(rows, lower) == BurnFeeBetween(rows, lower, Null)

\* generateSnapshot: lowerBoundPower
LowerBoundPower(start) == Max(0, start - MINER_POWER_WINDOW)

\* generateSnapshot up to its early return: const { start } = getBlockRange(...)
GetBlockRange ==
  /\ spendPc = "range"
  /\ spendStart' = BlockRangeStart(commitRows)
  /\ spendPc' = IF BlockRangeStart(commitRows) = 0 THEN "done" ELSE "spend"
  /\ UNCHANGED <<commitRows, burnFeeRows>>
  /\ UNCHANGED <<svars, gvars, pvars, spendRest>>

\* the stacks node processes a burn block: a commitment at the highest
\* height of the store or above it is appended
AppendBlockCommit ==
  /\ spendPc \in {"range", "spend"}
  /\ Len(commitRows) < MaxSpendRows
  /\ \E row \in CommitRowSet :
       /\ row.block_height >= BlockRangeStart(commitRows)
       /\ commitRows' = Append(commitRows, row)
  /\ UNCHANGED <<spendPc, spendStart, burnFeeRows>>
  /\ UNCHANGED <<svars, gvars, pvars, spendRest>>

\* computeMinerPowerSnapshot: const burnFeeRows = burnFeeStmt.all(lowerBound)
BurnFeeQuery ==
  /\ spendPc = "spend"
  /\ burnFeeRows' = BurnFeeStmt(commitRows, LowerBoundPower(spendStart))
  /\ spendPc' = "done"
  /\ UNCHANGED <<commitRows, spendStart>>
  /\ UNCHANGED <<svars, gvars, pvars, spendRest>>

\* the stores a run can find: the rows in the order the node wrote them
RECURSIVE Ascending(_)
Ascending(rows) ==
  \/ Len(rows) < 2
  \/ /\ rows[1].block_height <= rows[2].block_height
     /\ Ascending(Tail(rows))

InitSpend ==
  /\ SchedulerOff
  /\ GraphOff
  /\ PowerOff
  /\ MapsOff
  /\ StoreOff
  /\ WorkerOff
  /\ TextOff
  /\ WinnersOff
  /\ ConnOff
  /\ spendPc = "range"
  /\ commitRows \in {rows \in UNION {[1..n -> CommitRowSet] : n \in 0..(MaxSpendRows - 1)} :
                        Ascending(rows)}
  /\ spendStart = 0
  /\ burnFeeRows = <<>>

NextSpend == GetBlockRange \/ AppendBlockCommit \/ BurnFeeQuery

SpecSpend == InitSpend /\ [][NextSpend]_vars

\* C23: the per-miner spend totals of a run for height H are the sums over
\* exactly the commitments of (lowerBound, H], H being the upper bound the
\* run read, also when commitments above H were appended before the spend
\* query
C23_SpendWithinWindow ==
  (spendPc = "done" /\ spendStart # 0) =>
    burnFeeRows = BurnFeeBetween(commitRows, LowerBoundPower(spendStart), spendStart)

\* a run has answered its spend query after a commitment above its upper
\* bound was appended
C23_Witness ==
  /\ spendPc = "done"
  /\ spendStart > MINER_POWER_WINDOW
  /\ \E i \in DOMAIN commitRows : commitRows[i].block_height > spendStart
  /\ \E i \in DOMAIN commitRows : commitRows[i].block_height <= LowerBoundPower(spendStart)

(***************************************************************************)
(* The connections of one run to the source stores (part_009                *)
(* runSnapshotGeneration, generateSnapshot, openReadOnlyDatabase;           *)
(* miner-power-service.ts buildMinerAddressMaps).  generateSnapshot is      *)
(* synchronous, so an attempt is one step; the states between the steps    *)
(* are the ones in which no attempt is executing: between ticks and during *)
(* Bun.sleep.                                                              *)
(***************************************************************************)
\* the statements of generateSnapshot that can raise, in program order
AttemptSteps ==
  <<"openSortition", "getBlockRange", "loadLatestSnapshot", "openChainstate",
    "attach", "join", "computeMinerViz", "computeMinerPower", "insertSnapshot",
    "pruneSnapshots">>

StepNames == {AttemptSteps[i] : i \in DOMAIN AttemptSteps}

\* what one attempt meets: the statement that raises (or none) and whether
\* the sortition store is empty or the latest record already has its height
AttemptInputs ==
  [failAt : StepNames \cup {"none"}, start : {0, 1}, cached : BOOLEAN]

\* the statement is reached and raises
Raises(in, step) == in.failAt = step

\* openReadOnlyDatabase: new Database(path, {readonly}) raises or returns the
\* connection; the two PRAGMAs set connection flags without reading the file
OpenReadOnlyDatabase(c, name, raises) ==
  IF raises THEN [c EXCEPT !.thrown = TRUE]
  ELSE [c EXCEPT !.handles = @ \cup {name}]

\* buildMinerAddressMaps: ATTACH before the try, the join inside it,
\* finally DETACH
BuildMinerAddressMaps(c, in) ==
  IF Raises(in, "attach") THEN [c EXCEPT !.thrown = TRUE]
  ELSE LET joined == [c EXCEPT !.attached = TRUE, !.thrown = Raises(in, "join")]
       IN [joined EXCEPT !.attached = FALSE]

\* generateSnapshot whose closes follow the try block instead of being its
\* finally block
CloseAllOnReturn(c) ==
  IF c.thrown THEN c ELSE [c EXCEPT !.handles = {}, !.attached = FALSE]

\* finally { sortitionDb?.close(); chainstateDb?.close(); }: closing the
\* chain-state connection ends what it has attached
CloseAll(c) == [c EXCEPT !.handles = {}, !.attached = FALSE]

\* the rest of the try block of generateSnapshot after the address maps
AfterAddressMaps(c, in) ==
  IF c.thrown THEN c
  ELSE IF \E step \in {"computeMinerViz", "computeMinerPower", "insertSnapshot", "pruneSnapshots"} :
            Raises(in, step)
       THEN [c EXCEPT !.thrown = TRUE, !.end = in.failAt]
       ELSE [c EXCEPT !.end = "written"]

\* the try block of generateSnapshot
TryGenerateSnapshot(in) ==
  LET c0 == [handles |-> {}, attached |-> FALSE, thrown |-> FALSE, end |-> in.failAt]
      c1 == OpenReadOnlyDatabase(c0, "sortition", Raises(in, "openSortition"))
  IN IF c1.thrown THEN c1
     ELSE IF Raises(in, "getBlockRange") THEN [c1 EXCEPT !.thrown = TRUE]
     ELSE IF in.start = 0 THEN [c1 EXCEPT !.end = "empty"]
     ELSE IF Raises(in, "loadLatestSnapshot") THEN [c1 EXCEPT !.thrown = TRUE]
     ELSE IF in.cached THEN [c1 EXCEPT !.end = "cached"]
     ELSE LET c2 == OpenReadOnlyDatabase(c1, "chainstate", Raises(in, "openChainstate"))
          IN IF c2.thrown THEN c2
             ELSE AfterAddressMaps(BuildMinerAddressMaps(c2, in), in)

\* generateSnapshot as the connections see it
GenerateSnapshotConnections(in) == CloseAll(TryGenerateSnapshot(in))

\* one pass of the for loop of runSnapshotGeneration
ConnAttempt(n, ends) ==
  \E in \in AttemptInputs :
    LET c == GenerateSnapshotConnections(in)
    IN /\ handles' = c.handles
       /\ attachedDb' = c.attached
       /\ attemptNo' = n
       /\ attemptEnds' = Append(ends, [thrown |-> c.thrown, end |-> c.end])
       /\ sleeping' = (c.thrown /\ n < maxRetries)

\* a tick or the startup run calls runSnapshotGeneration while no run is
\* suspended (a suspended one has isRunning set and the call returns)
AttemptFromTick ==
  /\ ~sleeping
  /\ ConnAttempt(1, <<>>)
  /\ UNCHANGED <<svars, gvars, pvars, connRest>>

\* Bun.sleep(2000 * attempt) is over: the next attempt of the same run
AttemptAfterSleep ==
  /\ sleeping
  /\ ConnAttempt(attemptNo + 1, attemptEnds)
  /\ UNCHANGED <<svars, gvars, pvars, connRest>>

InitConn ==
  /\ SchedulerOff
  /\ GraphOff
  /\ PowerOff
  /\ MapsOff
  /\ StoreOff
  /\ WorkerOff
  /\ TextOff
  /\ WinnersOff
  /\ SpendOff
  /\ attemptNo = 0
  /\ sleeping = FALSE
  /\ handles = {}
  /\ attachedDb = FALSE
  /\ attemptEnds = <<>>

NextConn == AttemptFromTick \/ AttemptAfterSleep

SpecConn == InitConn /\ [][NextConn]_vars

====
